---- MODULE Spec2Model ----
(***************************************************************************)
(* The SQL admission gate of mysql-mcp-server-sse: the risk classifier     *)
(* (SQLOperationType), the WHERE guard (QueryLimiter), the interceptor     *)
(* (SQLInterceptor) and the executor that is meant to call them            *)
(* (MySQLConnectionManager.execute_query and the module-level              *)
(* execute_query).                                                         *)
(*                                                                         *)
(* A Python str is a tuple of one-character strings, so that strip, split, *)
(* upper and the substring test are computed the way the code computes     *)
(* them.  A Python call returns a record [raised, value]: raised is "" for *)
(* a normal return and the exception's class name otherwise.               *)
(***************************************************************************)
EXTENDS Naturals, Sequences, FiniteSets, TLC

VARIABLES
    environ,             \* os.environ as the module-level constructors read it
    sql_analyzer,        \* mysql_operations.sql_analyzer    (SQLOperationType)
    query_limiter,       \* mysql_operations.query_limiter   (QueryLimiter)
    sql_interceptor,     \* mysql_operations.sql_interceptor (SQLInterceptor)
    connection_manager,  \* mysql_operations.connection_manager
    database,            \* the MySQL server as the executor sees it
    sql,                 \* the statement the caller presents
    ret,                 \* outcome of the most recent call
    prev                 \* outcome of the classifier call made just before it

vars == <<environ, sql_analyzer, query_limiter, sql_interceptor,
          connection_manager, database, sql, ret, prev>>

-----------------------------------------------------------------------------
(* Bounds of the model. *)

\* clauses appended to a leading keyword to form a statement
MaxTail == 1
\* entries of the PADROES_BLOQUEADOS list
MaxPatterns == 1

-----------------------------------------------------------------------------
(* Python str operations used by the gate. *)

Whitespace == {" ", "\t", "\n"}

\* The backquote character, which a TLA+ string cannot hold
Backtick == "<backquote>"

LowerLetters == <<"a", "b", "c", "d", "e", "f", "g", "h", "i", "j", "k", "l", "m", "n", "o", "p", "q", "r", "s", "t", "u", "v", "w", "x", "y", "z", "é", "í">>
UpperLetters == <<"A", "B", "C", "D", "E", "F", "G", "H", "I", "J", "K", "L", "M", "N", "O", "P", "Q", "R", "S", "T", "U", "V", "W", "X", "Y", "Z", "É", "Í">>

UpperOf == [c \in {LowerLetters[i] : i \in 1..Len(LowerLetters)} |->
              UpperLetters[CHOOSE i \in 1..Len(LowerLetters) : LowerLetters[i] = c]]
LowerOf == [c \in {UpperLetters[i] : i \in 1..Len(UpperLetters)} |->
              LowerLetters[CHOOSE i \in 1..Len(UpperLetters) : UpperLetters[i] = c]]

\* str.upper()
upper(s) == [i \in 1..Len(s) |-> IF s[i] \in DOMAIN UpperOf THEN UpperOf[s[i]] ELSE s[i]]

\* str.lower()
lower(s) == [i \in 1..Len(s) |-> IF s[i] \in DOMAIN LowerOf THEN LowerOf[s[i]] ELSE s[i]]

SetMin(S) == CHOOSE i \in S : \A j \in S : i <= j
SetMax(S) == CHOOSE i \in S : \A j \in S : j <= i

\* str.strip(chars): drops the leading and trailing characters that are in chars
strip_chars(s, chars) ==
    LET keep == {i \in 1..Len(s) : s[i] \notin chars}
    IN  IF keep = {} THEN <<>> ELSE SubSeq(s, SetMin(keep), SetMax(keep))

\* str.strip()
strip(s) == strip_chars(s, Whitespace)

\* str.split(): the maximal runs of non-whitespace characters, in order
split(s) ==
    LET n == Len(s)
        starts == {i \in 1..n : s[i] \notin Whitespace
                                /\ (i = 1 \/ s[i - 1] \in Whitespace)}
        ends == {j \in 1..n : s[j] \notin Whitespace
                              /\ (j = n \/ s[j + 1] \in Whitespace)}
        nth(S, k) == CHOOSE i \in S : Cardinality({m \in S : m < i}) = k - 1
    IN  [k \in 1..Cardinality(starts) |-> SubSeq(s, nth(starts, k), nth(ends, k))]

\* str.split(sep) for a one-character sep: the fields between the separators,
\* empty fields kept
split_sep(s, sep) ==
    LET n == Len(s)
        cuts == {i \in 1..n : s[i] = sep}
        cut(k) == IF k = 0 THEN 0
                  ELSE IF k = Cardinality(cuts) + 1 THEN n + 1
                  ELSE CHOOSE i \in cuts : Cardinality({m \in cuts : m < i}) = k - 1
    IN  [k \in 1..(Cardinality(cuts) + 1) |-> SubSeq(s, cut(k - 1) + 1, cut(k) - 1)]

\* sub in s
contains(sub, s) ==
    \E i \in 0..Len(s) : i + Len(sub) <= Len(s) /\ \A k \in 1..Len(sub) : s[i + k] = sub[k]

\* truthiness of a str
truthy(s) == Len(s) > 0

Range(f) == {f[i] : i \in DOMAIN f}

\* os.getenv(name, default); environ[name] is [set, value]
getenv(env, name, default) == IF env[name].set THEN env[name].value ELSE default

\* A normal return and a raise.
Return(v) == [raised |-> "", value |-> v]
Raise(e) == [raised |-> e, value |-> FALSE]

\* The patterns of the model are literal fragments, plus fragments holding
\* an unbalanced "(" that re refuses to compile (re.error).
re_compiles(pattern) == ~ contains(<<"(">>, pattern)

\* re.search(pattern, text, re.IGNORECASE) for a literal pattern
re_search(pattern, text) == contains(upper(pattern), upper(text))

-----------------------------------------------------------------------------
(* security/sql_analyzer.py *)

\* class SQLRiskLevel(IntEnum)
BAIXO == 1
MEDIO == 2
ALTO == 3
CRITICO == 4

\* SQLRiskLevel[name]: the member of that name; the lookup raises KeyError
\* for any other name
SQLRiskLevelNames == {<<"B", "A", "I", "X", "O">>, <<"M", "É", "D", "I", "O">>, <<"A", "L", "T", "O">>, <<"C", "R", "Í", "T", "I", "C", "O">>}
SQLRiskLevelByName(name) ==
    CASE name = <<"B", "A", "I", "X", "O">> -> BAIXO
      [] name = <<"M", "É", "D", "I", "O">> -> MEDIO
      [] name = <<"A", "L", "T", "O">> -> ALTO
      [] name = <<"C", "R", "Í", "T", "I", "C", "O">> -> CRITICO

\* TipoAmbiente.from_string
TipoAmbiente_from_string(value) ==
    IF lower(value) = <<"p", "r", "o", "d", "u", "c", "a", "o">> THEN "PRODUCAO" ELSE "DESENVOLVIMENTO"

ddl_operations == {<<"C", "R", "E", "A", "T", "E">>, <<"A", "L", "T", "E", "R">>, <<"D", "R", "O", "P">>, <<"T", "R", "U", "N", "C", "A", "T", "E">>, <<"R", "E", "N", "A", "M", "E">>}
dml_operations == {<<"S", "E", "L", "E", "C", "T">>, <<"I", "N", "S", "E", "R", "T">>, <<"U", "P", "D", "A", "T", "E">>, <<"D", "E", "L", "E", "T", "E">>, <<"M", "E", "R", "G", "E">>}
metadata_operations == {<<"S", "H", "O", "W">>, <<"D", "E", "S", "C">>, <<"D", "E", "S", "C", "R", "I", "B", "E">>, <<"E", "X", "P", "L", "A", "I", "N">>, <<"H", "E", "L", "P">>,
                        <<"A", "N", "A", "L", "Y", "Z", "E">>, <<"C", "H", "E", "C", "K">>, <<"C", "H", "E", "C", "K", "S", "U", "M">>, <<"O", "P", "T", "I", "M", "I", "Z", "E">>}

\* SQLOperationType._parsear_niveis_risco
_parsear_niveis_risco(env) ==
    LET allowed_levels_str == getenv(env, "NIVEIS_RISCO_PERMITIDOS", <<"B", "A", "I", "X", "O", ",", "M", "É", "D", "I", "O">>)
        fields == split_sep(upper(allowed_levels_str), ",")
    IN  {SQLRiskLevelByName(strip(fields[i])) :
            i \in {j \in DOMAIN fields : strip(fields[j]) \in SQLRiskLevelNames}}

\* SQLOperationType._parsear_padroes_bloqueados
_parsear_padroes_bloqueados(env, env_var) ==
    LET patterns == split_sep(getenv(env, env_var, <<>>), ",")
        keep == {i \in DOMAIN patterns : truthy(strip(patterns[i]))}
        nth(k) == CHOOSE i \in keep : Cardinality({m \in keep : m < i}) = k - 1
    IN  [k \in 1..Cardinality(keep) |-> strip(patterns[nth(k)])]

\* A plausible slip: the production rule left out of the constructor.
SQLOperationType_init_unforced(env) ==
    LET env_type_str == lower(getenv(env, "TIPO_AMBIENTE", <<"d", "e", "s", "e", "n", "v", "o", "l", "v", "i", "m", "e", "n", "t", "o">>))
    IN  [env_type |-> TipoAmbiente_from_string(env_type_str),
         ddl_operations |-> ddl_operations,
         dml_operations |-> dml_operations,
         metadata_operations |-> metadata_operations,
         allowed_risk_levels |-> _parsear_niveis_risco(env),
         blocked_patterns |-> _parsear_padroes_bloqueados(env, "PADROES_BLOQUEADOS")]

\* SQLOperationType.__init__
SQLOperationType_init(env) ==
    LET env_type_str == lower(getenv(env, "TIPO_AMBIENTE", <<"d", "e", "s", "e", "n", "v", "o", "l", "v", "i", "m", "e", "n", "t", "o">>))
        env_type == TipoAmbiente_from_string(env_type_str)
    IN  [env_type |-> env_type,
         ddl_operations |-> ddl_operations,
         dml_operations |-> dml_operations,
         metadata_operations |-> metadata_operations,
         allowed_risk_levels |->
             IF env_type = "PRODUCAO"
                /\ ~ truthy(getenv(env, "NIVEIS_RISCO_PERMITIDOS", <<>>))
             THEN {BAIXO}
             ELSE _parsear_niveis_risco(env),
         blocked_patterns |-> _parsear_padroes_bloqueados(env, "PADROES_BLOQUEADOS")]

\* A plausible slip: the pattern searched as written, without
\* re.IGNORECASE, in the uppercased statement.
_verificar_padroes_perigosos_cased(self, sql_query) ==
    LET sql_upper == upper(sql_query)
        operacao == split(sql_upper)[1]
        stops == {i \in DOMAIN self.blocked_patterns :
                     \/ ~ re_compiles(self.blocked_patterns[i])
                     \/ contains(self.blocked_patterns[i], sql_upper)}
    IN  IF self.env_type = "PRODUCAO" /\ operacao # <<"S", "E", "L", "E", "C", "T">> THEN Return(TRUE)
        ELSE IF stops = {} THEN Return(FALSE)
        ELSE IF ~ re_compiles(self.blocked_patterns[SetMin(stops)]) THEN Raise("re.error")
        ELSE Return(TRUE)

\* SQLOperationType._verificar_padroes_perigosos: the production rule
\* returns before the patterns are tried; the patterns are tried in order,
\* and the first one that matches or does not compile ends the loop.
_verificar_padroes_perigosos(self, sql_query) ==
    LET sql_upper == upper(sql_query)
        operacao == split(sql_upper)[1]
        stops == {i \in DOMAIN self.blocked_patterns :
                     \/ ~ re_compiles(self.blocked_patterns[i])
                     \/ re_search(self.blocked_patterns[i], sql_upper)}
    IN  IF self.env_type = "PRODUCAO" /\ operacao # <<"S", "E", "L", "E", "C", "T">> THEN Return(TRUE)
        ELSE IF stops = {} THEN Return(FALSE)
        ELSE IF ~ re_compiles(self.blocked_patterns[SetMin(stops)]) THEN Raise("re.error")
        ELSE Return(TRUE)

\* A plausible slip: the keywords that introduce a table recognised in any
\* case.
_detectar_tabelas_any_case(self, sql_query) ==
    LET palavras == split(sql_query)
    IN  {strip_chars(palavras[i + 1], {Backtick, ";"}) :
            i \in {j \in DOMAIN palavras :
                     /\ upper(palavras[j])
                            \in {<<"F", "R", "O", "M">>, <<"J", "O", "I", "N">>, <<"U", "P", "D", "A", "T", "E">>, <<"I", "N", "T", "O">>, <<"T", "A", "B", "L", "E">>}
                     /\ j + 1 <= Len(palavras)
                     /\ strip_chars(palavras[j + 1], {Backtick, ";"})
                            \notin {<<"S", "E", "L", "E", "C", "T">>, <<"W", "H", "E", "R", "E">>, <<"S", "E", "T">>}}}

\* SQLOperationType._detectar_tabelas; list(set(...)) is kept as the set
_detectar_tabelas(self, sql_query) ==
    LET palavras == split(sql_query)
    IN  {strip_chars(palavras[i + 1], {Backtick, ";"}) :
            i \in {j \in DOMAIN palavras :
                     /\ palavras[j] \in {<<"F", "R", "O", "M">>, <<"J", "O", "I", "N">>, <<"U", "P", "D", "A", "T", "E">>, <<"I", "N", "T", "O">>, <<"T", "A", "B", "L", "E">>}
                     /\ j + 1 <= Len(palavras)
                     /\ strip_chars(palavras[j + 1], {Backtick, ";"})
                            \notin {<<"S", "E", "L", "E", "C", "T">>, <<"W", "H", "E", "R", "E">>, <<"S", "E", "T">>}}}

\* float('inf') and the finite row estimates
Rows(n) == [finite |-> TRUE, rows |-> n]
Unbounded == [finite |-> FALSE, rows |-> 0]

\* A plausible slip: the estimate made without regard to the environment.
_estimar_impacto_env_blind(self, sql_query) ==
    LET operacao == upper(split(sql_query)[1])
        has_where == contains(<<"W", "H", "E", "R", "E">>, upper(sql_query))
    IN  [operation |-> operacao,
         estimated_rows |->
             IF operacao = <<"S", "E", "L", "E", "C", "T">> THEN Rows(100)
             ELSE IF operacao \in {<<"U", "P", "D", "A", "T", "E">>, <<"D", "E", "L", "E", "T", "E">>}
                  THEN IF has_where THEN Rows(1000) ELSE Unbounded
             ELSE Rows(0),
         needs_where |-> operacao \in {<<"U", "P", "D", "A", "T", "E">>, <<"D", "E", "L", "E", "T", "E">>},
         has_where |-> has_where]

\* SQLOperationType._estimar_impacto
_estimar_impacto(self, sql_query) ==
    LET operacao == upper(split(sql_query)[1])
        has_where == contains(<<"W", "H", "E", "R", "E">>, upper(sql_query))
    IN  [operation |-> operacao,
         estimated_rows |->
             IF self.env_type = "PRODUCAO"
             THEN IF operacao = <<"S", "E", "L", "E", "C", "T">> THEN Rows(100) ELSE Unbounded
             ELSE IF operacao = <<"S", "E", "L", "E", "C", "T">> THEN Rows(100)
             ELSE IF operacao \in {<<"U", "P", "D", "A", "T", "E">>, <<"D", "E", "L", "E", "T", "E">>}
                  THEN IF has_where THEN Rows(1000) ELSE Unbounded
             ELSE Rows(0),
         needs_where |-> operacao \in {<<"U", "P", "D", "A", "T", "E">>, <<"D", "E", "L", "E", "T", "E">>},
         has_where |-> has_where]

\* The records _estimar_impacto hands to logger.warning, in order
_estimar_impacto_warnings(self, sql_query) ==
    LET operacao == upper(split(sql_query)[1])
        has_where == contains(<<"W", "H", "E", "R", "E">>, upper(sql_query))
        warning == [level |-> "WARNING", text |-> "sem WHERE pode afetar muitas linhas",
                    operation |-> operacao]
    IN  IF self.env_type = "PRODUCAO"
        THEN IF operacao = <<"S", "E", "L", "E", "C", "T">> THEN <<>> ELSE <<warning>>
        ELSE IF operacao = <<"S", "E", "L", "E", "C", "T">> THEN <<>>
        ELSE IF operacao \in {<<"U", "P", "D", "A", "T", "E">>, <<"D", "E", "L", "E", "T", "E">>}
             THEN IF (IF has_where THEN Rows(1000) ELSE Unbounded) = Unbounded
                  THEN <<warning>> ELSE <<>>
        ELSE <<>>

\* A plausible slip: DELETE without WHERE rated like UPDATE without WHERE,
\* and the metadata rule dropped.
_calcular_nivel_risco_flat(self, sql_query, operation, is_dangerous) ==
    IF is_dangerous THEN CRITICO
    ELSE IF self.env_type = "PRODUCAO" /\ operation # <<"S", "E", "L", "E", "C", "T">> THEN CRITICO
    ELSE IF operation \in self.ddl_operations
         THEN IF operation \in {<<"D", "R", "O", "P">>, <<"T", "R", "U", "N", "C", "A", "T", "E">>} THEN CRITICO ELSE ALTO
    ELSE IF operation = <<"S", "E", "L", "E", "C", "T">> THEN BAIXO
    ELSE IF operation = <<"I", "N", "S", "E", "R", "T">> THEN MEDIO
    ELSE IF operation \in {<<"U", "P", "D", "A", "T", "E">>, <<"D", "E", "L", "E", "T", "E">>}
         THEN IF ~ contains(<<"W", "H", "E", "R", "E">>, upper(sql_query)) THEN ALTO ELSE MEDIO
    ELSE ALTO

\* A plausible slip: the WHERE test inverted, so that a statement with a
\* WHERE clause is rated above the same statement without one.
_calcular_nivel_risco_inverted(self, sql_query, operation, is_dangerous) ==
    IF is_dangerous THEN CRITICO
    ELSE IF operation \in self.metadata_operations THEN BAIXO
    ELSE IF self.env_type = "PRODUCAO" /\ operation # <<"S", "E", "L", "E", "C", "T">> THEN CRITICO
    ELSE IF operation \in self.ddl_operations
         THEN IF operation \in {<<"D", "R", "O", "P">>, <<"T", "R", "U", "N", "C", "A", "T", "E">>} THEN CRITICO ELSE ALTO
    ELSE IF operation = <<"S", "E", "L", "E", "C", "T">> THEN BAIXO
    ELSE IF operation = <<"I", "N", "S", "E", "R", "T">> THEN MEDIO
    ELSE IF operation = <<"U", "P", "D", "A", "T", "E">>
         THEN IF contains(<<"W", "H", "E", "R", "E">>, upper(sql_query)) THEN ALTO ELSE MEDIO
    ELSE IF operation = <<"D", "E", "L", "E", "T", "E">>
         THEN IF contains(<<"W", "H", "E", "R", "E">>, upper(sql_query)) THEN CRITICO ELSE MEDIO
    ELSE ALTO

\* A plausible slip: the whole text searched for a destructive keyword.
_calcular_nivel_risco_scanning(self, sql_query, operation, is_dangerous) ==
    IF is_dangerous THEN CRITICO
    ELSE IF contains(<<"D", "R", "O", "P">>, upper(sql_query)) \/ contains(<<"D", "E", "L", "E", "T", "E">>, upper(sql_query))
         THEN CRITICO
    ELSE IF operation \in self.metadata_operations THEN BAIXO
    ELSE IF self.env_type = "PRODUCAO" /\ operation # <<"S", "E", "L", "E", "C", "T">> THEN CRITICO
    ELSE IF operation \in self.ddl_operations THEN ALTO
    ELSE IF operation = <<"S", "E", "L", "E", "C", "T">> THEN BAIXO
    ELSE IF operation = <<"I", "N", "S", "E", "R", "T">> THEN MEDIO
    ELSE IF operation = <<"U", "P", "D", "A", "T", "E">>
         THEN IF ~ contains(<<"W", "H", "E", "R", "E">>, upper(sql_query)) THEN ALTO ELSE MEDIO
    ELSE ALTO

\* SQLOperationType._calcular_nivel_risco
_calcular_nivel_risco(self, sql_query, operation, is_dangerous) ==
    IF is_dangerous THEN CRITICO
    ELSE IF operation \in self.metadata_operations THEN BAIXO
    ELSE IF self.env_type = "PRODUCAO" /\ operation # <<"S", "E", "L", "E", "C", "T">> THEN CRITICO
    ELSE IF operation \in self.ddl_operations
         THEN IF operation \in {<<"D", "R", "O", "P">>, <<"T", "R", "U", "N", "C", "A", "T", "E">>} THEN CRITICO ELSE ALTO
    ELSE IF operation = <<"S", "E", "L", "E", "C", "T">> THEN BAIXO
    ELSE IF operation = <<"I", "N", "S", "E", "R", "T">> THEN MEDIO
    ELSE IF operation = <<"U", "P", "D", "A", "T", "E">>
         THEN IF ~ contains(<<"W", "H", "E", "R", "E">>, upper(sql_query)) THEN ALTO ELSE MEDIO
    ELSE IF operation = <<"D", "E", "L", "E", "T", "E">>
         THEN IF ~ contains(<<"W", "H", "E", "R", "E">>, upper(sql_query)) THEN CRITICO ELSE MEDIO
    ELSE ALTO

\* The dict analisar_risco returns for empty input
EmptyAnalysis ==
    [operation |-> <<>>,
     operation_type |-> "DESCONHECIDO",
     is_dangerous |-> TRUE,
     affected_tables |-> {},
     estimated_impact |-> [operation |-> <<>>, estimated_rows |-> Rows(0),
                           needs_where |-> FALSE, has_where |-> FALSE],
     risk_level |-> ALTO,
     is_allowed |-> FALSE]

\* A plausible slip: a blocked-pattern match is not allowed to raise the
\* level, the flag is read as false when computing it.
analisar_risco_unflagged(self, sql_query) ==
    LET stripped == strip(sql_query)
        operation == upper(split(stripped)[1])
        dangerous == _verificar_padroes_perigosos(self, stripped)
        risk_level == _calcular_nivel_risco(self, stripped, operation, FALSE)
    IN  IF ~ truthy(stripped) THEN Return(EmptyAnalysis)
        ELSE IF dangerous.raised # "" THEN Raise(dangerous.raised)
        ELSE Return([operation |-> operation,
                     operation_type |->
                         IF operation \in self.ddl_operations THEN "DDL" ELSE "DML",
                     is_dangerous |-> dangerous.value,
                     affected_tables |-> _detectar_tabelas(self, stripped),
                     estimated_impact |-> _estimar_impacto(self, stripped),
                     risk_level |-> risk_level,
                     is_allowed |-> risk_level \in self.allowed_risk_levels])

\* A plausible slip: the verdict taken from the default levels instead of
\* the configured ones.
analisar_risco_default_levels(self, sql_query) ==
    LET stripped == strip(sql_query)
        operation == upper(split(stripped)[1])
        dangerous == _verificar_padroes_perigosos(self, stripped)
        risk_level == _calcular_nivel_risco(self, stripped, operation, dangerous.value)
    IN  IF ~ truthy(stripped) THEN Return(EmptyAnalysis)
        ELSE IF dangerous.raised # "" THEN Raise(dangerous.raised)
        ELSE Return([operation |-> operation,
                     operation_type |->
                         IF operation \in self.ddl_operations THEN "DDL" ELSE "DML",
                     is_dangerous |-> dangerous.value,
                     affected_tables |-> _detectar_tabelas(self, stripped),
                     estimated_impact |-> _estimar_impacto(self, stripped),
                     risk_level |-> risk_level,
                     is_allowed |-> risk_level \in {BAIXO, MEDIO}])

\* A plausible slip: the configured levels read as the levels to refuse.
analisar_risco_levels_negated(self, sql_query) ==
    LET stripped == strip(sql_query)
        operation == upper(split(stripped)[1])
        dangerous == _verificar_padroes_perigosos(self, stripped)
        risk_level == _calcular_nivel_risco(self, stripped, operation, dangerous.value)
    IN  IF ~ truthy(stripped) THEN Return(EmptyAnalysis)
        ELSE IF dangerous.raised # "" THEN Raise(dangerous.raised)
        ELSE Return([operation |-> operation,
                     operation_type |->
                         IF operation \in self.ddl_operations THEN "DDL" ELSE "DML",
                     is_dangerous |-> dangerous.value,
                     affected_tables |-> _detectar_tabelas(self, stripped),
                     estimated_impact |-> _estimar_impacto(self, stripped),
                     risk_level |-> risk_level,
                     is_allowed |-> risk_level \notin self.allowed_risk_levels])

\* SQLOperationType.analisar_risco
analisar_risco(self, sql_query) ==
    LET stripped == strip(sql_query)
        operation == upper(split(stripped)[1])
        dangerous == _verificar_padroes_perigosos(self, stripped)
        risk_level == _calcular_nivel_risco(self, stripped, operation, dangerous.value)
    IN  IF ~ truthy(stripped) THEN Return(EmptyAnalysis)
        ELSE IF dangerous.raised # "" THEN Raise(dangerous.raised)
        ELSE Return([operation |-> operation,
                     operation_type |->
                         IF operation \in self.ddl_operations THEN "DDL" ELSE "DML",
                     is_dangerous |-> dangerous.value,
                     affected_tables |-> _detectar_tabelas(self, stripped),
                     estimated_impact |-> _estimar_impacto(self, stripped),
                     risk_level |-> risk_level,
                     is_allowed |-> risk_level \in self.allowed_risk_levels])

-----------------------------------------------------------------------------
(* security/interceptor.py *)

\* SQLInterceptor.__init__: self.max_sql_length
max_sql_length == 1000

\* SQLInterceptor.__init__
SQLInterceptor_init(analyzer) ==
    [analyzer |-> analyzer, max_sql_length |-> max_sql_length]

\* supported_operations of check_operation
supported_operations ==
    {<<"S", "E", "L", "E", "C", "T">>, <<"I", "N", "S", "E", "R", "T">>, <<"U", "P", "D", "A", "T", "E">>, <<"D", "E", "L", "E", "T", "E">>,
     <<"C", "R", "E", "A", "T", "E">>, <<"A", "L", "T", "E", "R">>, <<"D", "R", "O", "P">>, <<"T", "R", "U", "N", "C", "A", "T", "E">>, <<"M", "E", "R", "G", "E">>,
     <<"S", "H", "O", "W">>, <<"D", "E", "S", "C">>, <<"D", "E", "S", "C", "R", "I", "B", "E">>, <<"E", "X", "P", "L", "A", "I", "N">>, <<"H", "E", "L", "P">>,
     <<"A", "N", "A", "L", "Y", "Z", "E">>, <<"C", "H", "E", "C", "K">>, <<"C", "H", "E", "C", "K", "S", "U", "M">>, <<"O", "P", "T", "I", "M", "I", "Z", "E">>}

\* The outcome of a check: what it raised or returned, the message of the
\* exception, the operation the message names, and the steps of the
\* pipeline that were evaluated, in order.
Outcome(raised, value, message, operation, steps) ==
    [raised |-> raised, value |-> value, message |-> message,
     operation |-> operation, steps |-> steps]

\* The attribute were it bound to the classifier's method.
analyze_risk_resolved(self, sql_query) == analisar_risco(self, sql_query)

\* <analyzer>.analyze_risk(sql_query), the call the interceptor and the
\* executor make.  SQLOperationType defines analisar_risco and no
\* analyze_risk (nor __getattr__), so the attribute lookup raises
\* AttributeError before any classifier code runs.
analyze_risk(self, sql_query) == Raise("AttributeError")

\* The structural steps with the whitelist test left out.
check_operation_structural_open(self, sql_query) ==
    LET sql_parts == split(strip(sql_query))
    IN  IF ~ truthy(sql_query) \/ ~ truthy(strip(sql_query))
        THEN Outcome("SecurityException", FALSE, "SQL não pode estar vazia",
                     <<>>, <<"empty">>)
        ELSE IF Len(sql_query) > self.max_sql_length
        THEN Outcome("SecurityException", FALSE, "Comprimento da SQL excede o limite",
                     <<>>, <<"empty", "length">>)
        ELSE IF Len(sql_parts) = 0
        THEN Outcome("SecurityException", FALSE, "Formato da SQL inválido",
                     <<>>, <<"empty", "length", "format">>)
        ELSE Outcome("", TRUE, "", upper(sql_parts[1]),
                     <<"empty", "length", "format", "supported">>)

\* A plausible slip: the empty test without the strip, so that a statement
\* of whitespace goes on to the length and the format tests.
check_operation_structural_unstripped(self, sql_query) ==
    LET sql_parts == split(strip(sql_query))
    IN  IF ~ truthy(sql_query)
        THEN Outcome("SecurityException", FALSE, "SQL não pode estar vazia",
                     <<>>, <<"empty">>)
        ELSE IF Len(sql_query) > self.max_sql_length
        THEN Outcome("SecurityException", FALSE, "Comprimento da SQL excede o limite",
                     <<>>, <<"empty", "length">>)
        ELSE IF Len(sql_parts) = 0
        THEN Outcome("SecurityException", FALSE, "Formato da SQL inválido",
                     <<>>, <<"empty", "length", "format">>)
        ELSE IF upper(sql_parts[1]) \notin supported_operations
        THEN Outcome("SecurityException", FALSE, "Operação SQL não suportada",
                     upper(sql_parts[1]), <<"empty", "length", "format", "supported">>)
        ELSE Outcome("", TRUE, "", upper(sql_parts[1]),
                     <<"empty", "length", "format", "supported">>)

\* A plausible slip: the length taken of the stripped statement.
check_operation_structural_trimmed(self, sql_query) ==
    LET sql_parts == split(strip(sql_query))
    IN  IF ~ truthy(sql_query) \/ ~ truthy(strip(sql_query))
        THEN Outcome("SecurityException", FALSE, "SQL não pode estar vazia",
                     <<>>, <<"empty">>)
        ELSE IF Len(strip(sql_query)) > self.max_sql_length
        THEN Outcome("SecurityException", FALSE, "Comprimento da SQL excede o limite",
                     <<>>, <<"empty", "length">>)
        ELSE IF Len(sql_parts) = 0
        THEN Outcome("SecurityException", FALSE, "Formato da SQL inválido",
                     <<>>, <<"empty", "length", "format">>)
        ELSE IF upper(sql_parts[1]) \notin supported_operations
        THEN Outcome("SecurityException", FALSE, "Operação SQL não suportada",
                     upper(sql_parts[1]), <<"empty", "length", "format", "supported">>)
        ELSE Outcome("", TRUE, "", upper(sql_parts[1]),
                     <<"empty", "length", "format", "supported">>)

\* SQLInterceptor.check_operation, the structural steps of the try block:
\* empty, length, format, supported operation
check_operation_structural(self, sql_query) ==
    LET sql_parts == split(strip(sql_query))
        operation == upper(sql_parts[1])
    IN  IF ~ truthy(sql_query) \/ ~ truthy(strip(sql_query))
        THEN Outcome("SecurityException", FALSE, "SQL não pode estar vazia",
                     <<>>, <<"empty">>)
        ELSE IF Len(sql_query) > self.max_sql_length
        THEN Outcome("SecurityException", FALSE, "Comprimento da SQL excede o limite",
                     <<>>, <<"empty", "length">>)
        ELSE IF Len(sql_parts) = 0
        THEN Outcome("SecurityException", FALSE, "Formato da SQL inválido",
                     <<>>, <<"empty", "length", "format">>)
        ELSE IF operation \notin supported_operations
        THEN Outcome("SecurityException", FALSE, "Operação SQL não suportada",
                     operation, <<"empty", "length", "format", "supported">>)
        ELSE Outcome("", TRUE, "", operation,
                     <<"empty", "length", "format", "supported">>)

\* SQLInterceptor.check_operation, the policy steps of the try block:
\* classify, dangerous, allowed, log and return True
check_operation_policy(self, sql_query) ==
    LET risk_analysis == analyze_risk(self.analyzer, sql_query)
    IN  IF risk_analysis.raised # ""
        THEN Outcome(risk_analysis.raised, FALSE, "", <<>>, <<"analyze_risk">>)
        ELSE IF risk_analysis.value.is_dangerous
        THEN Outcome("SecurityException", FALSE, "Operação perigosa detectada",
                     risk_analysis.value.operation, <<"analyze_risk", "dangerous">>)
        ELSE IF ~ risk_analysis.value.is_allowed
        THEN Outcome("SecurityException", FALSE,
                     "Nível de risco da operação atual não é permitido",
                     <<>>, <<"analyze_risk", "dangerous", "allowed">>)
        ELSE Outcome("", TRUE, "", risk_analysis.value.operation,
                     <<"analyze_risk", "dangerous", "allowed", "log">>)

\* A plausible slip: the handler logs the fault and lets the check pass.
check_operation_except_open(e) ==
    Outcome("", TRUE, "Falha na verificação de segurança", <<>>,
            e.steps \o <<"except Exception">>)

\* SQLInterceptor.check_operation, except Exception: the fault becomes a
\* SecurityException
check_operation_except(e) ==
    Outcome("SecurityException", FALSE, "Falha na verificação de segurança", <<>>,
            e.steps \o <<"except Exception">>)

\* SQLInterceptor.check_operation
check_operation(self, sql_query) ==
    LET structural == check_operation_structural(self, sql_query)
        policy == check_operation_policy(self, sql_query)
        tried == IF structural.raised # "" THEN structural
                 ELSE [policy EXCEPT !.steps = structural.steps \o policy.steps]
    IN  IF tried.raised \in {"", "SecurityException"} THEN tried
        ELSE check_operation_except(tried)

-----------------------------------------------------------------------------
(* security/query_limiter.py *)

\* QueryLimiter.__init__
QueryLimiter_init(env) ==
    [enable_check |->
        lower(getenv(env, "ENABLE_QUERY_CHECK", <<"t", "r", "u", "e">>))
            \notin {<<"f", "a", "l", "s", "e">>, <<"0">>, <<"n", "o">>, <<"o", "f", "f">>}]

\* QueryLimiter._get_operation_type
_get_operation_type(sql_query) ==
    IF ~ truthy(sql_query) THEN <<>>
    ELSE IF Len(split(sql_query)) = 0 THEN <<>>
    ELSE upper(split(sql_query)[1])

\* The (bool, str) pair check_query returns; the message names the operation
Verdict(allowed, text, operation) ==
    [allowed |-> allowed, error_msg |-> [text |-> text, operation |-> operation]]

\* A plausible slip: WHERE looked for among the whitespace-delimited words
\* instead of anywhere in the text.
check_query_by_word(self, sql_query) ==
    LET upper_query == upper(strip(sql_query))
        operation_type == _get_operation_type(upper_query)
    IN  IF ~ self.enable_check THEN Verdict(TRUE, "", <<>>)
        ELSE IF operation_type \in {<<"U", "P", "D", "A", "T", "E">>, <<"D", "E", "L", "E", "T", "E">>}
                /\ <<"W", "H", "E", "R", "E">> \notin Range(split(upper_query))
        THEN Verdict(FALSE, "Operação deve conter cláusula WHERE", operation_type)
        ELSE Verdict(TRUE, "", <<>>)

\* QueryLimiter.check_query
check_query(self, sql_query) ==
    LET upper_query == upper(strip(sql_query))
        operation_type == _get_operation_type(upper_query)
    IN  IF ~ self.enable_check THEN Verdict(TRUE, "", <<>>)
        ELSE IF operation_type \in {<<"U", "P", "D", "A", "T", "E">>, <<"D", "E", "L", "E", "T", "E">>}
                /\ ~ contains(<<"W", "H", "E", "R", "E">>, upper_query)
        THEN Verdict(FALSE, "Operação deve conter cláusula WHERE", operation_type)
        ELSE Verdict(TRUE, "", <<>>)

-----------------------------------------------------------------------------
(* db/mysql_operations.py *)

\* MySQLConnectionManager.__init__
MySQLConnectionManager_init == [connection |-> "None", cursor |-> "None"]

\* MySQLConnectionManager.connect: a connection is opened when there is
\* none or it is no longer connected; mysql.connector.connect raises when
\* the server cannot be reached
connect(self, db) ==
    IF self.connection # "connected"
    THEN IF db.up
         THEN [raised |-> "", self |-> [connection |-> "connected", cursor |-> "open"]]
         ELSE [raised |-> "mysql.connector.Error", self |-> self]
    ELSE [raised |-> "", self |-> self]

\* query.strip().split()[0].upper() if query.strip() else 'UNKNOWN'
operation_of(query) ==
    IF truthy(strip(query)) THEN upper(split(strip(query))[1]) ELSE <<"U", "N", "K", "N", "O", "W", "N">>

\* The try block shared by the executors, from the classifier call on:
\* the call's result is bound to risk_level and never read; cursor.execute
\* hands the statement to the server, which may refuse it (fails).
execute_query_try(analyzer, db, query, fails) ==
    LET risk_level == analyze_risk(analyzer, query)
        sent == [db EXCEPT !.submitted = @ \union {query}]
    IN  IF risk_level.raised # ""
        THEN [out |-> Outcome(risk_level.raised, FALSE, "", <<>>, <<"analyze_risk">>),
              db |-> db]
        ELSE IF fails
        THEN [out |-> Outcome("mysql.connector.Error", FALSE, "", <<>>,
                              <<"analyze_risk", "cursor.execute">>),
              db |-> sent]
        ELSE [out |-> Outcome("", TRUE, "", operation_of(query),
                              <<"analyze_risk", "cursor.execute", "cursor.fetchall">>),
              db |-> sent]

\* except mysql.connector.Error of the executors: rollback for UPDATE,
\* DELETE and INSERT (a failure of the rollback is swallowed), then
\* ValueError; every other exception passes through
execute_query_except(connection, query, out) ==
    IF out.raised # "mysql.connector.Error" THEN out
    ELSE Outcome("ValueError", FALSE, "Falha na execução da consulta", <<>>,
                 out.steps \o
                 (IF operation_of(query) \in {<<"U", "P", "D", "A", "T", "E">>, <<"D", "E", "L", "E", "T", "E">>, <<"I", "N", "S", "E", "R", "T">>}
                     /\ connection = "connected"
                  THEN <<"connection.rollback">> ELSE <<>>))

\* MySQLConnectionManager.execute_query
MySQLConnectionManager_execute_query(self, analyzer, db, query, fails) ==
    LET connected == connect(self, db)
        tried == IF connected.raised # ""
                 THEN [out |-> Outcome(connected.raised, FALSE, "", <<>>, <<"connect">>),
                       db |-> db]
                 ELSE LET t == execute_query_try(analyzer, db, query, fails)
                      IN  [t EXCEPT !.out.steps = <<"connect">> \o @]
        handled == execute_query_except(connected.self.connection, query, tried.out)
    IN  \* finally: the cursor is closed and a new one is asked of the connection
        IF connected.self.cursor = "None"
        THEN [out |-> handled, self |-> connected.self, db |-> tried.db]
        ELSE IF connected.self.connection = "connected"
        THEN [out |-> [handled EXCEPT !.steps = @ \o <<"cursor.close", "connection.cursor">>],
              self |-> [connected.self EXCEPT !.cursor = "open"],
              db |-> tried.db]
        ELSE [out |-> Outcome("mysql.connector.Error", FALSE, "", <<>>,
                              handled.steps \o <<"cursor.close", "connection.cursor">>),
              self |-> [connected.self EXCEPT !.cursor = "closed"],
              db |-> tried.db]

\* execute_query(connection, cursor, query, params), the module-level
\* executor, called with an open cursor of a live connection
execute_query(analyzer, db, query, fails) ==
    LET tried == execute_query_try(analyzer, db, query, fails)
        handled == execute_query_except("connected", query, tried.out)
    IN  [out |-> [handled EXCEPT !.steps = @ \o <<"cursor.close">>],
         db |-> tried.db]

-----------------------------------------------------------------------------
(* The statements and the environments the model ranges over. *)

\* The text a statement starts with: nothing, blank, and keywords of every
\* class the gate tells apart, some in lower case or after a space.
Leads ==
    {<<>>, <<" ">>, <<"S", "E", "L", "E", "C", "T">>, <<"S", "E", "L", "E", "C", "T", " ", "1">>, <<"U", "P", "D", "A", "T", "E">>, <<" ", "d", "e", "l", "e", "t", "e">>, <<"I", "N", "S", "E", "R", "T">>,
     <<"D", "R", "O", "P">>, <<"C", "R", "E", "A", "T", "E">>, <<"s", "h", "o", "w">>, <<"M", "E", "R", "G", "E">>, <<"R", "E", "N", "A", "M", "E">>, <<"G", "R", "A", "N", "T">>}

\* Clauses that add a WHERE clause to a statement: one as a word of its
\* own, one where the letters only occur inside another word.
WhereClauses == {<<" ", "W", "H", "E", "R", "E", " ", "i", "d", "=", "1">>, <<" ", "n", "o", "w", "h", "e", "r", "e">>}

Clauses == WhereClauses \union {<<" ", "*", " ", "F", "R", "O", "M", " ", "u", "s", "e", "r", "s">>}

RECURSIVE TailsUpTo(_)
TailsUpTo(n) ==
    IF n = 0 THEN {<<>>}
    ELSE TailsUpTo(n - 1) \union {t \o c : t \in TailsUpTo(n - 1), c \in Clauses}

\* s followed by spaces up to n characters
PadTo(s, n) == s \o [i \in 1..(n - Len(s)) |-> " "]

\* Statements at and just over the length limit
LongStatements ==
    {PadTo(<<"S", "E", "L", "E", "C", "T", " ", "1">>, max_sql_length), PadTo(<<"S", "E", "L", "E", "C", "T", " ", "1">>, max_sql_length + 1),
     PadTo(<<"G", "R", "A", "N", "T">>, max_sql_length + 1), PadTo(<<" ">>, max_sql_length + 1)}

Statements == {l \o t : l \in Leads, t \in TailsUpTo(MaxTail)} \union LongStatements

Unset == [set |-> FALSE, value |-> <<>>]
Set(v) == [set |-> TRUE, value |-> v]

TipoAmbienteValues == {Unset, Set(<<"P", "r", "o", "d", "u", "c", "a", "o">>)}

NiveisValues ==
    {Unset, Set(<<>>), Set(<<"u", "r", "g", "e", "n", "t", "e">>), Set(<<"b", "a", "i", "x", "o", ",", " ", "m", "é", "d", "i", "o", ",", "a", "l", "t", "o", ",", "C", "R", "Í", "T", "I", "C", "O", ",", "u", "r", "g", "e", "n", "t", "e">>)}

\* Entries of PADROES_BLOQUEADOS: two literal fragments and one that does
\* not compile
PatternFragments == {<<"d", "r", "o", "p">>, <<" ", "W", "H", "E", "R", "E", " ">>, <<"(">>}

RECURSIVE PadroesUpTo(_)
PadroesUpTo(n) ==
    IF n = 0 THEN {<<>>}
    ELSE PadroesUpTo(n - 1)
         \union {p \o f \o <<",">> : p \in PadroesUpTo(n - 1), f \in PatternFragments}

PadroesValues == {IF p = <<>> THEN Unset ELSE Set(p) : p \in PadroesUpTo(MaxPatterns)}

EnableValues == {Unset, Set(<<"F", "a", "l", "s", "e">>), Set(<<"o", "f", "f">>), Set(<<"y", "e", "s">>)}

NoCall == [op |-> "", sql |-> <<>>, out |-> Return(FALSE)]
Call(op, query, out) == [op |-> op, sql |-> query, out |-> out]

\* The state after the module-level constructors of mysql_operations.py
\* have run under environment env, with query the statement presented
Constructed(env, query) ==
    /\ environ = env
    /\ sql_analyzer = SQLOperationType_init(env)
    /\ query_limiter = QueryLimiter_init(env)
    /\ sql_interceptor = SQLInterceptor_init(SQLOperationType_init(env))
    /\ connection_manager = MySQLConnectionManager_init
    /\ database = [up |-> TRUE, submitted |-> {}]
    /\ sql = query
    /\ ret = NoCall
    /\ prev = NoCall

InitGate ==
    \E tipo \in TipoAmbienteValues, niveis \in NiveisValues,
       padroes \in PadroesValues, query \in Statements :
        Constructed([TIPO_AMBIENTE |-> tipo, NIVEIS_RISCO_PERMITIDOS |-> niveis,
                     PADROES_BLOQUEADOS |-> padroes, ENABLE_QUERY_CHECK |-> Unset],
                    query)

InitLimiter ==
    \E enable \in EnableValues, query \in Statements :
        Constructed([TIPO_AMBIENTE |-> Unset, NIVEIS_RISCO_PERMITIDOS |-> Unset,
                     PADROES_BLOQUEADOS |-> Unset, ENABLE_QUERY_CHECK |-> enable],
                    query)

InitExecutor ==
    \E tipo \in TipoAmbienteValues, enable \in {Unset, Set(<<"o", "f", "f">>)},
       query \in Statements :
        Constructed([TIPO_AMBIENTE |-> tipo, NIVEIS_RISCO_PERMITIDOS |-> Unset,
                     PADROES_BLOQUEADOS |-> Unset, ENABLE_QUERY_CHECK |-> enable],
                    query)

-----------------------------------------------------------------------------
(* The operations. *)

config == <<environ, sql_analyzer, query_limiter, sql_interceptor>>

\* A plausible slip: the classifier tightens the allowed levels once it has
\* seen a dangerous statement.
AnalisarRiscoEndurecendo ==
    LET out == analisar_risco(sql_analyzer, sql)
    IN  /\ ret' = Call("analisar_risco", sql, out)
        /\ prev' = NoCall
        /\ sql_analyzer' =
               IF out.raised = "" /\ out.value.is_dangerous
               THEN [sql_analyzer EXCEPT !.allowed_risk_levels = {}]
               ELSE sql_analyzer
        /\ UNCHANGED <<environ, query_limiter, sql_interceptor,
                       connection_manager, database, sql>>

\* A caller classifies the statement.
AnalisarRisco ==
    /\ ret' = Call("analisar_risco", sql, analisar_risco(sql_analyzer, sql))
    /\ prev' = NoCall
    /\ UNCHANGED <<config, connection_manager, database, sql>>

\* A caller that has classified one of the statements classifies it again
\* with a WHERE clause added.
AnalisarRiscoComWhere(clause) ==
    /\ ret.op = "analisar_risco"
    /\ sql \in Statements
    /\ sql' = sql \o clause
    /\ prev' = ret
    /\ ret' = Call("analisar_risco", sql', analisar_risco(sql_analyzer, sql'))
    /\ UNCHANGED <<config, connection_manager, database>>

\* A caller asks the interceptor about the statement.
CheckOperation ==
    /\ ret' = Call("check_operation", sql, check_operation(sql_interceptor, sql))
    /\ prev' = NoCall
    /\ UNCHANGED <<config, connection_manager, database, sql>>

\* A caller asks the WHERE guard about the statement.
CheckQuery ==
    /\ ret' = Call("check_query", sql, Return(check_query(query_limiter, sql)))
    /\ prev' = NoCall
    /\ UNCHANGED <<config, connection_manager, database, sql>>

\* connection_manager.execute_query(sql)
ExecuteQuery(fails) ==
    LET r == MySQLConnectionManager_execute_query(
                 connection_manager, sql_interceptor.analyzer, database, sql, fails)
    IN  /\ ret' = Call("MySQLConnectionManager.execute_query", sql, r.out)
        /\ connection_manager' = r.self
        /\ database' = r.db
        /\ prev' = NoCall
        /\ UNCHANGED <<config, sql>>

\* execute_query(connection, cursor, sql) inside get_db_connection(), which
\* yields a connection only while the server can be reached
ExecuteQueryCompat(fails) ==
    LET r == execute_query(sql_interceptor.analyzer, database, sql, fails)
    IN  /\ database.up
        /\ ret' = Call("execute_query", sql, r.out)
        /\ database' = r.db
        /\ prev' = NoCall
        /\ UNCHANGED <<config, connection_manager, sql>>

\* The server becomes unreachable: an open connection is lost.
DatabaseDown ==
    /\ database.up
    /\ database' = [database EXCEPT !.up = FALSE]
    /\ connection_manager' =
           [connection_manager EXCEPT
               !.connection = IF @ = "connected" THEN "lost" ELSE @]
    /\ UNCHANGED <<config, sql, ret, prev>>

\* The server can be reached again.
DatabaseUp ==
    /\ ~ database.up
    /\ database' = [database EXCEPT !.up = TRUE]
    /\ UNCHANGED <<config, connection_manager, sql, ret, prev>>

NextClassifier ==
    \/ AnalisarRisco
    \/ \E clause \in WhereClauses : AnalisarRiscoComWhere(clause)

NextExecutor ==
    \/ \E fails \in BOOLEAN : ExecuteQuery(fails)
    \/ \E fails \in BOOLEAN : ExecuteQueryCompat(fails)
    \/ DatabaseDown
    \/ DatabaseUp

\* The interceptor is asked about the statement that has just been
\* classified.
CheckOperationDepois ==
    /\ ret.op = "analisar_risco"
    /\ prev' = ret
    /\ ret' = Call("check_operation", sql, check_operation(sql_interceptor, sql))
    /\ UNCHANGED <<config, connection_manager, database, sql>>

\* The statement is classified again after the interceptor was asked
\* about it.
AnalisarRiscoDeNovo ==
    /\ ret.op = "check_operation"
    /\ prev.op = "analisar_risco"
    /\ ret' = Call("analisar_risco", sql, analisar_risco(sql_analyzer, sql))
    /\ UNCHANGED <<config, connection_manager, database, sql, prev>>

NextGate ==
    \/ AnalisarRisco
    \/ CheckOperationDepois
    \/ AnalisarRiscoDeNovo

SpecClassifier == InitGate /\ [][NextClassifier]_vars
SpecInterceptor == InitGate /\ [][CheckOperation]_vars
SpecLimiter == InitLimiter /\ [][CheckQuery]_vars
SpecExecutor == InitExecutor /\ [][NextExecutor]_vars
SpecGate == InitGate /\ [][NextGate]_vars

-----------------------------------------------------------------------------
(* Vocabulary of the properties. *)

Executors == {"MySQLConnectionManager.execute_query", "execute_query"}

\* the statement is not empty and not only whitespace
NonBlank(query) == truthy(strip(query))

\* the leading whitespace-delimited token, uppercased
LeadingKeyword(query) == upper(split(query)[1])

\* the uppercased text contains WHERE
HasWhere(query) == contains(<<"W", "H", "E", "R", "E">>, upper(query))

\* some configured blocked pattern matches the statement
MatchesBlocked(self, query) ==
    \E i \in DOMAIN self.blocked_patterns :
        /\ re_compiles(self.blocked_patterns[i])
        /\ re_search(self.blocked_patterns[i], query)

\* no allowed-levels override was supplied
NoOverride == ~ environ.NIVEIS_RISCO_PERMITIDOS.set

\* the interceptor's verdict on a statement
Admits(query) ==
    /\ check_operation(sql_interceptor, query).raised = ""
    /\ check_operation(sql_interceptor, query).value = TRUE

-----------------------------------------------------------------------------
(* C1 *)

\* C1: in every run of either executor, a statement is handed to the
\* database cursor only after the interceptor's check of that statement was
\* made in the same run and allowed it; a statement the interceptor denies
\* is never handed to the database.
C1_SubmittedOnlyAfterAllow ==
    /\ \A q \in database.submitted : Admits(q)
    /\ ret.op \in Executors /\ "cursor.execute" \in Range(ret.out.steps)
       => /\ Admits(ret.sql)
          /\ \E i, j \in DOMAIN ret.out.steps :
                /\ i < j
                /\ ret.out.steps[i] = "check_operation"
                /\ ret.out.steps[j] = "cursor.execute"

\* An executor was run, with a connection, on a DROP statement, which the
\* interceptor denies, and the statement did not reach the database.
C1_Witness ==
    /\ ret.op = "MySQLConnectionManager.execute_query"
    /\ connection_manager.connection = "connected"
    /\ NonBlank(ret.sql)
    /\ LeadingKeyword(ret.sql) = <<"D", "R", "O", "P">>
    /\ ~ Admits(ret.sql)
    /\ "analyze_risk" \in Range(ret.out.steps)
    /\ ret.sql \notin database.submitted

-----------------------------------------------------------------------------
(* C2 *)

\* C2: a statement whose leading keyword is outside the supported
\* operations is denied by the interceptor with a SecurityException under
\* every configuration, and the check ends before the classifier is called.
C2_UnsupportedDenied ==
    ret.op = "check_operation" /\ NonBlank(ret.sql)
        /\ LeadingKeyword(ret.sql) \notin supported_operations
    => /\ ret.out.raised = "SecurityException"
       /\ "analyze_risk" \notin Range(ret.out.steps)

\* GRANT was presented in production and refused as an unsupported
\* operation.
C2_Witness ==
    /\ ret.op = "check_operation"
    /\ sql_analyzer.env_type = "PRODUCAO"
    /\ NonBlank(ret.sql)
    /\ LeadingKeyword(ret.sql) = <<"G", "R", "A", "N", "T">>
    /\ ret.out.raised = "SecurityException"
    /\ ret.out.message = "Operação SQL não suportada"
    /\ ret.out.operation = <<"G", "R", "A", "N", "T">>

-----------------------------------------------------------------------------
(* C3 *)

\* C3 as claimed: a non-empty statement that matches a configured blocked
\* pattern is classified CRITICO and not allowed, under every
\* configuration.
C3_BlockedIsCriticalAndDenied ==
    ret.op = "analisar_risco" /\ NonBlank(ret.sql)
        /\ MatchesBlocked(sql_analyzer, ret.sql)
    => /\ ret.out.raised = ""
       /\ ret.out.value.risk_level = CRITICO
       /\ ret.out.value.is_allowed = FALSE

\* C3 amended: every analysis the classifier returns for a non-empty
\* statement that matches a configured blocked pattern is flagged dangerous
\* and CRITICO, also when the operation alone would be BAIXO, and it is
\* allowed exactly when CRITICO is among the allowed levels.
C3_BlockedIsCritical ==
    ret.op = "analisar_risco" /\ NonBlank(ret.sql)
        /\ MatchesBlocked(sql_analyzer, ret.sql)
        /\ ret.out.raised = ""
    => /\ ret.out.value.is_dangerous
       /\ ret.out.value.risk_level = CRITICO
       /\ ret.out.value.is_allowed = (CRITICO \in sql_analyzer.allowed_risk_levels)

\* A SELECT that matches a blocked pattern was classified in development:
\* CRITICO, and not allowed under the default levels.
C3_Witness ==
    /\ ret.op = "analisar_risco"
    /\ sql_analyzer.env_type = "DESENVOLVIMENTO"
    /\ NonBlank(ret.sql)
    /\ LeadingKeyword(ret.sql) = <<"S", "E", "L", "E", "C", "T">>
    /\ MatchesBlocked(sql_analyzer, ret.sql)
    /\ ret.out.raised = ""
    /\ ret.out.value.risk_level = CRITICO
    /\ ~ ret.out.value.is_allowed

-----------------------------------------------------------------------------
(* C4 *)

-----------------------------------------------------------------------------
(* C5 *)

\* C5: a statement that is not blank, not longer than the maximum, leads
\* with a supported keyword, is not flagged dangerous by the classifier and
\* whose risk level is allowed, is allowed by the interceptor: the check
\* returns True.
C5_CleanStatementAllowed ==
    ret.op = "check_operation"
        /\ NonBlank(ret.sql)
        /\ Len(ret.sql) <= max_sql_length
        /\ LeadingKeyword(ret.sql) \in supported_operations
        /\ analisar_risco(sql_analyzer, ret.sql).raised = ""
        /\ ~ analisar_risco(sql_analyzer, ret.sql).value.is_dangerous
        /\ analisar_risco(sql_analyzer, ret.sql).value.is_allowed
    => /\ ret.out.raised = ""
       /\ ret.out.value = TRUE

-----------------------------------------------------------------------------
(* C6 *)

\* C6: a fault raised inside the interceptor's check is turned into a
\* SecurityException: the check ends by returning True or by raising
\* SecurityException, and once a fault was raised it does not return True.
C6_FailClosed ==
    ret.op = "check_operation"
    => /\ ret.out.raised \in {"", "SecurityException"}
       /\ ret.out.raised = "" => ret.out.value = TRUE
       /\ "analyze_risk" \in Range(ret.out.steps)
             /\ analyze_risk(sql_interceptor.analyzer, ret.sql).raised
                    \notin {"", "SecurityException"}
          => /\ ret.out.raised = "SecurityException"
             /\ ret.out.message = "Falha na verificação de segurança"

\* The classifier call of a check faulted and the check ended in a
\* SecurityException that reports the fault.
C6_Witness ==
    /\ ret.op = "check_operation"
    /\ "analyze_risk" \in Range(ret.out.steps)
    /\ analyze_risk(sql_interceptor.analyzer, ret.sql).raised = "AttributeError"
    /\ "except Exception" \in Range(ret.out.steps)
    /\ ret.out.raised = "SecurityException"
    /\ ret.out.message = "Falha na verificação de segurança"

-----------------------------------------------------------------------------
(* C7 *)

\* C7: both gates are invoked on every mutating statement: a run of an
\* executor on an UPDATE or DELETE statement that gets as far as the gate
\* calls the WHERE guard and the interceptor, and with the guard enabled an
\* UPDATE or DELETE that the guard denies never reaches the database.
C7_BothGatesInvoked ==
    /\ ret.op \in Executors
          /\ NonBlank(ret.sql)
          /\ LeadingKeyword(ret.sql) \in {<<"U", "P", "D", "A", "T", "E">>, <<"D", "E", "L", "E", "T", "E">>}
          /\ "analyze_risk" \in Range(ret.out.steps)
       => /\ "check_query" \in Range(ret.out.steps)
          /\ "check_operation" \in Range(ret.out.steps)
    /\ \A q \in database.submitted :
          query_limiter.enable_check
              /\ NonBlank(q) /\ LeadingKeyword(q) \in {<<"U", "P", "D", "A", "T", "E">>, <<"D", "E", "L", "E", "T", "E">>}
          => check_query(query_limiter, q).allowed

-----------------------------------------------------------------------------
(* C8 *)

\* C8: with the guard disabled check_query allows every statement; with it
\* enabled it denies exactly the statements whose leading token, after trim
\* and uppercase, is UPDATE or DELETE and whose uppercased text does not
\* contain WHERE, with a message naming the operation; every other
\* statement is allowed with an empty message.
C8_WhereGuard ==
    ret.op = "check_query"
    => LET verdict == ret.out.value
           mutating == NonBlank(ret.sql)
                       /\ LeadingKeyword(ret.sql) \in {<<"U", "P", "D", "A", "T", "E">>, <<"D", "E", "L", "E", "T", "E">>}
           denied == query_limiter.enable_check /\ mutating /\ ~ HasWhere(ret.sql)
       IN  /\ ret.out.raised = ""
           /\ verdict.allowed = ~ denied
           /\ denied => /\ verdict.error_msg.text = "Operação deve conter cláusula WHERE"
                        /\ verdict.error_msg.operation = LeadingKeyword(ret.sql)
           /\ ~ denied => verdict.error_msg.text = ""

\* With the guard enabled a DELETE without WHERE was denied with a message
\* naming DELETE.
C8_Witness ==
    /\ ret.op = "check_query"
    /\ query_limiter.enable_check
    /\ NonBlank(ret.sql)
    /\ LeadingKeyword(ret.sql) = <<"D", "E", "L", "E", "T", "E">>
    /\ ~ HasWhere(ret.sql)
    /\ ~ ret.out.value.allowed
    /\ ret.out.value.error_msg.operation = <<"D", "E", "L", "E", "T", "E">>

-----------------------------------------------------------------------------
(* C9 *)

\* The cascade of the specification, first matching rule first.
Cascade(self, analysis) ==
    LET operation == analysis.operation
        hasWhere == analysis.estimated_impact.has_where
    IN  CASE analysis.is_dangerous -> CRITICO
          [] OTHER ->
        CASE operation \in self.metadata_operations -> BAIXO
          [] OTHER ->
        CASE self.env_type = "PRODUCAO" /\ operation # <<"S", "E", "L", "E", "C", "T">> -> CRITICO
          [] OTHER ->
        CASE operation \in {<<"D", "R", "O", "P">>, <<"T", "R", "U", "N", "C", "A", "T", "E">>} -> CRITICO
          [] operation \in {<<"C", "R", "E", "A", "T", "E">>, <<"A", "L", "T", "E", "R">>, <<"R", "E", "N", "A", "M", "E">>} -> ALTO
          [] operation = <<"S", "E", "L", "E", "C", "T">> -> BAIXO
          [] operation = <<"I", "N", "S", "E", "R", "T">> -> MEDIO
          [] operation = <<"U", "P", "D", "A", "T", "E">> /\ ~ hasWhere -> ALTO
          [] operation = <<"U", "P", "D", "A", "T", "E">> /\ hasWhere -> MEDIO
          [] operation = <<"D", "E", "L", "E", "T", "E">> /\ ~ hasWhere -> CRITICO
          [] operation = <<"D", "E", "L", "E", "T", "E">> /\ hasWhere -> MEDIO
          [] OTHER -> ALTO

\* C9: the risk level of every analysis returned for a non-empty statement
\* is the result of the first matching rule of the cascade: dangerous,
\* metadata, production non-SELECT, DDL, SELECT, INSERT, UPDATE, DELETE,
\* anything else.
C9_RiskCascade ==
    ret.op = "analisar_risco" /\ NonBlank(ret.sql) /\ ret.out.raised = ""
    => ret.out.value.risk_level = Cascade(sql_analyzer, ret.out.value)

\* A DELETE without WHERE that no rule above the DELETE rule takes was
\* classified: CRITICO.
C9_Witness ==
    /\ ret.op = "analisar_risco"
    /\ NonBlank(ret.sql)
    /\ ret.out.raised = ""
    /\ sql_analyzer.env_type = "DESENVOLVIMENTO"
    /\ ~ ret.out.value.is_dangerous
    /\ ret.out.value.operation = <<"D", "E", "L", "E", "T", "E">>
    /\ ~ ret.out.value.estimated_impact.has_where
    /\ ret.out.value.risk_level = CRITICO

-----------------------------------------------------------------------------
(* C10 *)

\* ret classifies the UPDATE or DELETE statement of prev with a WHERE
\* clause added, and both calls returned
WhereAdded ==
    /\ ret.op = "analisar_risco"
    /\ prev.op = "analisar_risco"
    /\ \E clause \in WhereClauses : ret.sql = prev.sql \o clause
    /\ NonBlank(prev.sql)
    /\ LeadingKeyword(prev.sql) \in {<<"U", "P", "D", "A", "T", "E">>, <<"D", "E", "L", "E", "T", "E">>}
    /\ prev.out.raised = ""
    /\ ret.out.raised = ""

\* C10 as claimed: under every configuration, adding a WHERE clause to an
\* UPDATE or DELETE statement never increases the computed risk level.
C10_WhereNeverIncreasesRisk ==
    WhereAdded => ret.out.value.risk_level <= prev.out.value.risk_level

\* C10 amended: adding a WHERE clause to an UPDATE or DELETE statement
\* never increases the computed risk level unless the added clause makes
\* the statement dangerous, by matching a blocked pattern the statement
\* did not match without it, and then the level is CRITICO; when neither
\* statement is dangerous the levels are, for DELETE, CRITICO without
\* WHERE and MEDIO with, and for UPDATE, ALTO without and MEDIO with.
C10_WhereNeverIncreasesRiskUnlessBlocked ==
    WhereAdded
    => /\ ret.out.value.is_dangerous => ret.out.value.risk_level = CRITICO
       /\ (ret.out.value.is_dangerous => prev.out.value.is_dangerous)
          => ret.out.value.risk_level <= prev.out.value.risk_level
       /\ ~ ret.out.value.is_dangerous /\ ~ prev.out.value.is_dangerous
             /\ ~ HasWhere(prev.sql)
          => /\ ret.out.value.risk_level = MEDIO
             /\ prev.out.value.risk_level =
                    IF LeadingKeyword(prev.sql) = <<"U", "P", "D", "A", "T", "E">> THEN ALTO ELSE CRITICO

\* An UPDATE without WHERE was classified ALTO and, with a WHERE clause
\* added, MEDIO.
C10_Witness ==
    /\ WhereAdded
    /\ LeadingKeyword(prev.sql) = <<"U", "P", "D", "A", "T", "E">>
    /\ ~ HasWhere(prev.sql)
    /\ prev.out.value.risk_level = ALTO
    /\ ret.out.value.risk_level = MEDIO

-----------------------------------------------------------------------------
(* C11 *)

\* C11 as claimed: for every statement, empty and whitespace-only ones
\* included, and every configuration, the analysis the classifier returns
\* has is_allowed equal to (risk_level is among the allowed levels).
C11_AllowedIffLevelAllowed ==
    ret.op = "analisar_risco" /\ ret.out.raised = ""
    => ret.out.value.is_allowed
           = (ret.out.value.risk_level \in sql_analyzer.allowed_risk_levels)

\* C11 amended: for every statement that is not blank the analysis has
\* is_allowed equal to (risk_level is among the allowed levels); for an
\* empty or whitespace-only statement the analysis is ALTO and not allowed,
\* whatever the allowed levels are.
C11_AllowedIffLevelAllowedUnlessBlank ==
    ret.op = "analisar_risco" /\ ret.out.raised = ""
    => IF NonBlank(ret.sql)
       THEN ret.out.value.is_allowed
                = (ret.out.value.risk_level \in sql_analyzer.allowed_risk_levels)
       ELSE /\ ret.out.value.risk_level = ALTO
            /\ ~ ret.out.value.is_allowed

\* A whitespace-only statement was classified while ALTO is among the
\* allowed levels: ALTO, and not allowed.
C11_Witness ==
    /\ ret.op = "analisar_risco"
    /\ ret.out.raised = ""
    /\ truthy(ret.sql)
    /\ ~ NonBlank(ret.sql)
    /\ ALTO \in sql_analyzer.allowed_risk_levels
    /\ ret.out.value.risk_level = ALTO
    /\ ~ ret.out.value.is_allowed

-----------------------------------------------------------------------------
(* C12 *)

\* C12: for every statement that is not blank, the analysis the classifier
\* returns has is_dangerous true exactly when some configured blocked
\* pattern matches in the uppercased statement, case ignored, or the
\* environment is production and the leading keyword is not SELECT.
C12_DangerousIffBlockedOrProduction ==
    ret.op = "analisar_risco" /\ NonBlank(ret.sql) /\ ret.out.raised = ""
    => ret.out.value.is_dangerous
           = \/ MatchesBlocked(sql_analyzer, upper(ret.sql))
             \/ /\ sql_analyzer.env_type = "PRODUCAO"
                /\ LeadingKeyword(ret.sql) # <<"S", "E", "L", "E", "C", "T">>

\* In development a statement written in upper case matched a blocked
\* pattern written in lower case and was flagged dangerous.
C12_Witness ==
    /\ ret.op = "analisar_risco"
    /\ NonBlank(ret.sql)
    /\ ret.out.raised = ""
    /\ sql_analyzer.env_type = "DESENVOLVIMENTO"
    /\ \E i \in DOMAIN sql_analyzer.blocked_patterns :
          /\ sql_analyzer.blocked_patterns[i] = <<"d", "r", "o", "p">>
          /\ contains(<<"D", "R", "O", "P">>, ret.sql)
    /\ ret.out.value.is_dangerous

-----------------------------------------------------------------------------
(* C13 *)

\* the check was not ended by the unsupported-operation step
PassesSupportedStep(out) ==
    ~ (out.raised = "SecurityException" /\ out.message = "Operação SQL não suportada")

\* C13: the interceptor's supported operations are exactly the union of the
\* classifier's DDL, DML and metadata keywords: a statement that reaches
\* the unsupported-operation step passes it exactly when its leading
\* keyword, uppercased, is in one of the three sets.
C13_WhitelistIsUnion ==
    ret.op = "check_operation" /\ NonBlank(ret.sql) /\ Len(ret.sql) <= max_sql_length
    => PassesSupportedStep(ret.out)
           = (LeadingKeyword(ret.sql) \in
                  sql_analyzer.ddl_operations \union sql_analyzer.dml_operations
                      \union sql_analyzer.metadata_operations)

-----------------------------------------------------------------------------
(* C14 *)

\* The reason of the earliest failing step, in the order empty, length,
\* unsupported operation, dangerous, level not permitted; "" when no step
\* fails.
EarliestReason(self, query) ==
    LET analysis == analisar_risco(self.analyzer, query).value
    IN  IF ~ NonBlank(query) THEN "SQL não pode estar vazia"
        ELSE IF Len(query) > self.max_sql_length THEN "Comprimento da SQL excede o limite"
        ELSE IF LeadingKeyword(query) \notin supported_operations
             THEN "Operação SQL não suportada"
        ELSE IF analysis.is_dangerous THEN "Operação perigosa detectada"
        ELSE IF ~ analysis.is_allowed
             THEN "Nível de risco da operação atual não é permitido"
        ELSE ""

\* C14: the interceptor's steps short-circuit in the order empty, length
\* exceeded, unsupported operation, dangerous, level not permitted: the
\* denial of a statement carries the reason of the earliest step that
\* fails, and a dangerous statement whose level is also not permitted is
\* denied as dangerous.
C14_EarliestReasonOnly ==
    ret.op = "check_operation"
        /\ (NonBlank(ret.sql)
            => analisar_risco(sql_interceptor.analyzer, ret.sql).raised = "")
    => ret.out.message = EarliestReason(sql_interceptor, ret.sql)

-----------------------------------------------------------------------------
(* C15 *)

\* C15: once the configuration is loaded the allowed risk levels are never
\* the empty set, whatever the value of NIVEIS_RISCO_PERMITIDOS (unset,
\* empty, or only unrecognized names) and whatever the environment.
C15_AllowedLevelsNeverEmpty ==
    sql_analyzer.allowed_risk_levels # {}

-----------------------------------------------------------------------------
(* C16 *)

\* an allowed-levels override was supplied: the variable is set and not
\* empty
OverrideSupplied == truthy(getenv(environ, "NIVEIS_RISCO_PERMITIDOS", <<>>))

\* The levels named in a comma-separated list, names trimmed and uppercased
ParsedOverride(value) ==
    {SQLRiskLevelByName(name) :
        name \in {strip(field) : field \in Range(split_sep(upper(value), ","))}
                     \cap SQLRiskLevelNames}

-----------------------------------------------------------------------------
(* C17 *)

\* C17: a blocked pattern that does not compile is reported when the
\* configuration is loaded: the loaded list holds only patterns that
\* compile, and no classifier call meets an invalid pattern at match time.
C17_InvalidPatternFailsAtLoad ==
    /\ \A i \in DOMAIN sql_analyzer.blocked_patterns :
          re_compiles(sql_analyzer.blocked_patterns[i])
    /\ ret.op = "analisar_risco" => ret.out.raised # "re.error"

-----------------------------------------------------------------------------
(* C18 *)

-----------------------------------------------------------------------------
(* C19 *)

\* ret classifies a statement that leads with a metadata keyword and
\* matches no blocked pattern
MetadataUnblocked ==
    /\ ret.op = "analisar_risco"
    /\ NonBlank(ret.sql)
    /\ ret.out.raised = ""
    /\ LeadingKeyword(ret.sql) \in metadata_operations
    /\ ~ MatchesBlocked(sql_analyzer, ret.sql)

-----------------------------------------------------------------------------
(* C20 *)

\* The operation class a leading keyword has by the three keyword sets
OperationClass(self, query) ==
    IF ~ NonBlank(query) THEN "UNKNOWN"
    ELSE IF LeadingKeyword(query) \in self.ddl_operations THEN "DDL"
    ELSE IF LeadingKeyword(query) \in self.metadata_operations THEN "METADATA"
    ELSE IF LeadingKeyword(query) \in self.dml_operations THEN "DML"
    ELSE "UNKNOWN"

\* The class an operation_type of the code stands for
OperationClassOf(operation_type) ==
    IF operation_type = "DESCONHECIDO" THEN "UNKNOWN" ELSE operation_type

\* C20: the operation class of the analysis is derived from the leading
\* keyword: DDL, METADATA or DML for a keyword of the respective set, and
\* UNKNOWN for any other keyword and for empty input.
C20_OperationClassBySets ==
    ret.op = "analisar_risco" /\ ret.out.raised = ""
    => OperationClassOf(ret.out.value.operation_type)
           = OperationClass(sql_analyzer, ret.sql)

-----------------------------------------------------------------------------
(* C21 *)

\* Statements for the table scan: a head that ends in a keyword, or not,
\* followed by a token that is plain, quoted, terminated, reserved or
\* missing.
TableHeads ==
    {<<"S", "E", "L", "E", "C", "T", " ", "*", " ", "F", "R", "O", "M">>, <<"s", "e", "l", "e", "c", "t", " ", "*", " ", "f", "r", "o", "m">>, <<"U", "P", "D", "A", "T", "E">>, <<"I", "N", "S", "E", "R", "T", " ", "I", "N", "T", "O">>,
     <<"D", "R", "O", "P", " ", "T", "A", "B", "L", "E">>, <<"S", "E", "L", "E", "C", "T", " ", "1">>, <<"S", "E", "L", "E", "C", "T", " ", "*", " ", "F", "R", "O", "M", " ", "a", " ", "J", "O", "I", "N">>}

TableTails ==
    {<<>>, <<" ", "u", "s", "e", "r", "s">>, <<" ", "u", "s", "e", "r", "s", ";">>, <<" ", ";", "u", "s", "e", "r", "s">>, <<" ", "W", "H", "E", "R", "E", " ", "i", "d", "=", "1">>, <<" ", "S", "E", "T", " ", "x", "=", "1">>,
     <<" ", "o", "r", "d", "e", "r", "s", " ", "S", "E", "T", " ", "x", "=", "1">>, <<" ", "u", "s", "e", "r", "s", " ", "W", "H", "E", "R", "E", " ", "i", "d", "=", "1">>,
     <<" ", Backtick>> \o <<"u", "s", "e", "r", "s">> \o <<Backtick>>,
     <<" ", Backtick>> \o <<"u", "s", "e", "r", "s">> \o <<Backtick, ";">>}

TableStatements == {h \o t : h \in TableHeads, t \in TableTails}

InitTables ==
    \E tipo \in TipoAmbienteValues, query \in TableStatements :
        Constructed([TIPO_AMBIENTE |-> tipo, NIVEIS_RISCO_PERMITIDOS |-> Unset,
                     PADROES_BLOQUEADOS |-> Unset, ENABLE_QUERY_CHECK |-> Unset],
                    query)

SpecTables == InitTables /\ [][AnalisarRisco]_vars

\* s without its trailing characters that are in chars
StripTrailing(s, chars) ==
    LET keep == {i \in 1..Len(s) : s[i] \notin chars}
    IN  IF keep = {} THEN <<>> ELSE SubSeq(s, 1, SetMax(keep))

\* s without its leading and trailing characters that are in chars
StripBothEnds(s, chars) ==
    LET keep == {i \in 1..Len(s) : s[i] \notin chars}
    IN  IF keep = {} THEN <<>> ELSE SubSeq(s, SetMin(keep), SetMax(keep))

\* The tokens that follow a token equal to FROM, JOIN, UPDATE, INTO or TABLE
TokensAfterTableKeyword(query) ==
    LET tokens == split(query)
    IN  {tokens[i + 1] :
            i \in {j \in 1..(Len(tokens) - 1) :
                     tokens[j] \in {<<"F", "R", "O", "M">>, <<"J", "O", "I", "N">>, <<"U", "P", "D", "A", "T", "E">>, <<"I", "N", "T", "O">>, <<"T", "A", "B", "L", "E">>}}}

ReservedTokens == {<<"S", "E", "L", "E", "C", "T">>, <<"W", "H", "E", "R", "E">>, <<"S", "E", "T">>}

\* C21 as claimed: the affected tables are exactly the tokens that follow
\* a token equal to FROM, JOIN, UPDATE, INTO or TABLE, each with its
\* trailing semicolons and backquotes stripped, those equal to SELECT,
\* WHERE or SET left out.
C21_TablesTrailingStripped ==
    ret.op = "analisar_risco" /\ ret.out.raised = ""
    => ret.out.value.affected_tables
           = {StripTrailing(t, {Backtick, ";"}) : t \in TokensAfterTableKeyword(ret.sql)}
                 \ ReservedTokens

\* C21 amended: the affected tables are exactly the tokens that follow a
\* token equal, in upper case as written, to FROM, JOIN, UPDATE, INTO or
\* TABLE, each with its leading and trailing semicolons and backquotes
\* stripped, those equal to SELECT, WHERE or SET left out; a keyword that
\* is the last token contributes nothing.
C21_TablesBothEndsStripped ==
    ret.op = "analisar_risco" /\ ret.out.raised = ""
    => ret.out.value.affected_tables
           = {StripBothEnds(t, {Backtick, ";"}) : t \in TokensAfterTableKeyword(ret.sql)}
                 \ ReservedTokens

\* A statement that names its table between backquotes was classified and
\* the table is reported without them.
C21_Witness ==
    /\ ret.op = "analisar_risco"
    /\ ret.out.raised = ""
    /\ <<Backtick>> \o <<"u", "s", "e", "r", "s">> \o <<Backtick>> \in TokensAfterTableKeyword(ret.sql)
    /\ ret.out.value.affected_tables = {<<"u", "s", "e", "r", "s">>}

-----------------------------------------------------------------------------
(* C22 *)

\* C22: under every configuration, the classifier returns for an empty or
\* whitespace-only statement the operation "", the class unknown, the
\* dangerous flag set, the level HIGH and the allowed flag unset, and the
\* interceptor denies such a statement with the empty-statement reason
\* before it makes any other check.
C22_BlankStatement ==
    /\ ret.op = "analisar_risco" /\ ~ NonBlank(ret.sql)
       => /\ ret.out.raised = ""
          /\ ret.out.value.operation = <<>>
          /\ ret.out.value.operation_type = "DESCONHECIDO"
          /\ ret.out.value.is_dangerous
          /\ ret.out.value.risk_level = ALTO
          /\ ~ ret.out.value.is_allowed
    /\ ret.op = "check_operation" /\ ~ NonBlank(ret.sql)
       => /\ ret.out.raised = "SecurityException"
          /\ ret.out.message = "SQL não pode estar vazia"
          /\ ret.out.steps = <<"empty">>

\* A statement of whitespace longer than the length limit was classified
\* HIGH and then denied by the interceptor as empty, ALTO being among the
\* allowed levels.
C22_Witness ==
    /\ ret.op = "check_operation"
    /\ prev.op = "analisar_risco"
    /\ ret.sql # <<>>
    /\ ~ NonBlank(ret.sql)
    /\ Len(ret.sql) > max_sql_length
    /\ ALTO \in sql_analyzer.allowed_risk_levels
    /\ prev.out.raised = "" /\ prev.out.value.risk_level = ALTO
    /\ ret.out.message = "SQL não pode estar vazia"

-----------------------------------------------------------------------------
(* C23 *)

\* analisar_risco's call of _estimar_impacto, which it makes with the
\* stripped statement once it has found it not empty; the call's result and
\* the warnings it logged are kept.
EstimarImpacto ==
    /\ NonBlank(sql)
    /\ ret' = [op |-> "_estimar_impacto", sql |-> strip(sql),
               out |-> Return(_estimar_impacto(sql_analyzer, strip(sql))),
               warnings |-> _estimar_impacto_warnings(sql_analyzer, strip(sql))]
    /\ prev' = NoCall
    /\ UNCHANGED <<config, connection_manager, database, sql>>

SpecImpact == InitGate /\ [][EstimarImpacto]_vars

\* C23: in the impact estimate, needs_where is true exactly for UPDATE and
\* DELETE; has_where is true exactly when the uppercased statement contains
\* WHERE; estimated_rows is 100 for SELECT, 1000 for UPDATE and DELETE with
\* WHERE and unbounded without it in development, and unbounded for every
\* statement other than SELECT in production; a warning is logged exactly
\* when estimated_rows is unbounded.
C23_ImpactEstimate ==
    ret.op = "_estimar_impacto"
    => LET impacto == ret.out.value
           keyword == LeadingKeyword(ret.sql)
           producao == sql_analyzer.env_type = "PRODUCAO"
       IN  /\ impacto.needs_where <=> keyword \in {<<"U", "P", "D", "A", "T", "E">>, <<"D", "E", "L", "E", "T", "E">>}
           /\ impacto.has_where <=> HasWhere(ret.sql)
           /\ keyword = <<"S", "E", "L", "E", "C", "T">> => impacto.estimated_rows = Rows(100)
           /\ ~ producao /\ keyword \in {<<"U", "P", "D", "A", "T", "E">>, <<"D", "E", "L", "E", "T", "E">>} /\ impacto.has_where
              => impacto.estimated_rows = Rows(1000)
           /\ ~ producao /\ keyword \in {<<"U", "P", "D", "A", "T", "E">>, <<"D", "E", "L", "E", "T", "E">>} /\ ~ impacto.has_where
              => impacto.estimated_rows = Unbounded
           /\ producao /\ keyword # <<"S", "E", "L", "E", "C", "T">> => impacto.estimated_rows = Unbounded
           /\ ret.warnings # <<>> <=> impacto.estimated_rows = Unbounded

\* In production an UPDATE with a WHERE clause was estimated unbounded and
\* the warning was logged.
C23_Witness ==
    /\ ret.op = "_estimar_impacto"
    /\ sql_analyzer.env_type = "PRODUCAO"
    /\ LeadingKeyword(ret.sql) = <<"U", "P", "D", "A", "T", "E">>
    /\ ret.out.value.has_where
    /\ ret.out.value.estimated_rows = Unbounded
    /\ Len(ret.warnings) = 1

-----------------------------------------------------------------------------
(* C24 *)

\* C24: the interceptor denies a non-blank statement for its length if and
\* only if the raw statement, leading and trailing whitespace included, has
\* more than 1000 characters; a statement of exactly 1000 characters is not
\* denied for length, and the limit is 1000 under every configuration.
C24_LengthBoundary ==
    /\ sql_interceptor.max_sql_length = 1000
    /\ ret.op = "check_operation" /\ NonBlank(ret.sql)
       => (/\ ret.out.raised = "SecurityException"
           /\ ret.out.message = "Comprimento da SQL excede o limite"
           /\ ret.out.steps = <<"empty", "length">>)
          <=> Len(ret.sql) > 1000

\* A statement of 1001 characters, of which at most 1000 are left once it
\* is stripped, was denied for its length.
C24_Witness ==
    /\ ret.op = "check_operation"
    /\ Len(ret.sql) = 1001
    /\ NonBlank(ret.sql)
    /\ Len(strip(ret.sql)) <= 1000
    /\ ret.out.message = "Comprimento da SQL excede o limite"

-----------------------------------------------------------------------------
(* C25 *)

\* C25: in production, with an override that allows every level, a
\* statement the interceptor supports whose leading keyword is not SELECT
\* is reported by the classifier as dangerous and allowed, and the
\* interceptor denies it at its dangerous check, before the allowed-level
\* check.
C25_ProductionDeniesAtDangerousCheck ==
    /\ ret.op = "check_operation"
    /\ prev.op = "analisar_risco"
    /\ sql_analyzer.env_type = "PRODUCAO"
    /\ sql_analyzer.allowed_risk_levels = {BAIXO, MEDIO, ALTO, CRITICO}
    /\ NonBlank(ret.sql)
    /\ Len(ret.sql) <= max_sql_length
    /\ LeadingKeyword(ret.sql) \in supported_operations \ {<<"S", "E", "L", "E", "C", "T">>}
    => /\ prev.out.raised = ""
       /\ prev.out.value.is_dangerous
       /\ prev.out.value.is_allowed
       /\ ret.out.raised = "SecurityException"
       /\ ret.out.message = "Operação perigosa detectada"
       /\ ret.out.steps = <<"empty", "length", "format", "supported", "analyze_risk", "dangerous">>

-----------------------------------------------------------------------------
(* C26 *)

\* Statements that share a leading keyword and differ in what follows it:
\* a second statement, another table, a WHERE clause, padding.
PairStatements ==
    {<<>>, <<" ", " ">>,
     <<"S", "E", "L", "E", "C", "T", " ", "1">>, <<"S", "E", "L", "E", "C", "T", " ", "1", ";", " ", "D", "R", "O", "P", " ", "T", "A", "B", "L", "E", " ", "u", "s", "e", "r", "s">>, <<"s", "e", "l", "e", "c", "t", " ", "2", ";", " ", "D", "E", "L", "E", "T", "E", " ", "F", "R", "O", "M", " ", "u", "s", "e", "r", "s">>,
     <<"S", "E", "L", "E", "C", "T", " ", "a", " ", "W", "H", "E", "R", "E", " ", "b">>, <<"S", "E", "L", "E", "C", "T", " ", "c", ";", " ", "D", "E", "L", "E", "T", "E", " ", "F", "R", "O", "M", " ", "t", " ", "W", "H", "E", "R", "E", " ", "d">>,
     <<"U", "P", "D", "A", "T", "E", " ", "t", " ", "S", "E", "T", " ", "a", "=", "1">>, <<"U", "P", "D", "A", "T", "E", " ", "u", " ", "S", "E", "T", " ", "b", "=", "2", ";", " ", "D", "R", "O", "P", " ", "T", "A", "B", "L", "E", " ", "u">>,
     <<"U", "P", "D", "A", "T", "E", " ", "t", " ", "S", "E", "T", " ", "a", "=", "1", " ", "W", "H", "E", "R", "E", " ", "i", "d", "=", "1">>, <<"u", "p", "d", "a", "t", "e", " ", "u", " ", "S", "E", "T", " ", "b", "=", "2", " ", "W", "H", "E", "R", "E", " ", "i", "d", "=", "2", ";", " ", "T", "R", "U", "N", "C", "A", "T", "E", " ", "u">>,
     <<"D", "E", "L", "E", "T", "E", " ", "F", "R", "O", "M", " ", "t">>, <<" ", "d", "e", "l", "e", "t", "e", " ", "F", "R", "O", "M", " ", "u", ";", " ", "G", "R", "A", "N", "T", " ", "A", "L", "L">>,
     <<"G", "R", "A", "N", "T", " ", "A", "L", "L">>,
     PadTo(<<"S", "E", "L", "E", "C", "T", " ", "1">>, max_sql_length + 1),
     PadTo(<<"S", "E", "L", "E", "C", "T", " ", "1", ";", " ", "D", "R", "O", "P", " ", "T", "A", "B", "L", "E", " ", "u", "s", "e", "r", "s">>, max_sql_length + 2)}

\* Blocked-pattern lists for the pairs: none, one that the second
\* statements match, one that the WHERE clauses match, one that does not
\* compile.
PairPadroes == {Unset, Set(<<"d", "r", "o", "p">>), Set(<<" ", "W", "H", "E", "R", "E", " ">>), Set(<<"(", ",", "d", "r", "o", "p">>)}

InitPair ==
    \E tipo \in TipoAmbienteValues,
       niveis \in {Unset, Set(<<"b", "a", "i", "x", "o", ",", " ", "m", "é", "d", "i", "o", ",", "a", "l", "t", "o", ",", "C", "R", "Í", "T", "I", "C", "O", ",", "u", "r", "g", "e", "n", "t", "e">>)},
       padroes \in PairPadroes, query \in PairStatements :
        Constructed([TIPO_AMBIENTE |-> tipo, NIVEIS_RISCO_PERMITIDOS |-> niveis,
                     PADROES_BLOQUEADOS |-> padroes, ENABLE_QUERY_CHECK |-> Unset],
                    query)

\* A caller presents the statement and another one, each to the classifier
\* and to the interceptor, under the one configuration.
ClassificarPar(other) ==
    /\ ret' = [op |-> "pair", sql |-> sql, other |-> other,
               first |-> [analysis |-> analisar_risco(sql_analyzer, sql),
                          check |-> check_operation(sql_interceptor, sql)],
               second |-> [analysis |-> analisar_risco(sql_analyzer, other),
                           check |-> check_operation(sql_interceptor, other)]]
    /\ prev' = NoCall
    /\ UNCHANGED <<config, connection_manager, database, sql>>

NextPair == \E other \in PairStatements : ClassificarPar(other)

SpecPair == InitPair /\ [][NextPair]_vars

\* What the claim lets the outcome depend on: the leading keyword (none for
\* a blank statement), whether the text contains WHERE, whether a blocked
\* pattern matches, and whether the length is over the limit.
Features(query) ==
    [keyword |-> IF NonBlank(query) THEN LeadingKeyword(strip(query)) ELSE <<>>,
     where |-> HasWhere(query),
     blocked |-> MatchesBlocked(sql_analyzer, strip(query)),
     long |-> Len(query) > max_sql_length]

\* C26: under one configuration, two statements that agree on the leading
\* keyword, on containing WHERE, on matching a blocked pattern and on the
\* length get the same computed risk level and the same verdict of the
\* interceptor, whatever else they contain; a statement led by SELECT that
\* matches no blocked pattern is classified LOW even when a DROP or DELETE
\* statement follows in the text.
C26_DependsOnlyOnFeatures ==
    ret.op = "pair"
    => /\ Features(ret.sql) = Features(ret.other)
          => /\ ret.first.analysis.raised = "" /\ ret.second.analysis.raised = ""
                => ret.first.analysis.value.risk_level
                       = ret.second.analysis.value.risk_level
             /\ ret.first.check.raised = ret.second.check.raised
             /\ ret.first.check.value = ret.second.check.value
             /\ ret.first.check.message = ret.second.check.message
       /\ /\ NonBlank(ret.sql)
          /\ LeadingKeyword(strip(ret.sql)) = <<"S", "E", "L", "E", "C", "T">>
          /\ ~ MatchesBlocked(sql_analyzer, strip(ret.sql))
          /\ ret.first.analysis.raised = ""
          => ret.first.analysis.value.risk_level = BAIXO

\* A SELECT followed by a DROP statement and a bare SELECT, which agree on
\* the four features, were both classified LOW and got the same verdict.
C26_Witness ==
    /\ ret.op = "pair"
    /\ ret.sql = <<"S", "E", "L", "E", "C", "T", " ", "1", ";", " ", "D", "R", "O", "P", " ", "T", "A", "B", "L", "E", " ", "u", "s", "e", "r", "s">>
    /\ ret.other = <<"S", "E", "L", "E", "C", "T", " ", "1">>
    /\ Features(ret.sql) = Features(ret.other)
    /\ ret.first.analysis.raised = ""
    /\ ret.first.analysis.value.risk_level = BAIXO
    /\ ret.second.analysis.value.risk_level = BAIXO
    /\ ret.first.check = ret.second.check

-----------------------------------------------------------------------------
(* C27 *)

InitWhere ==
    \E tipo \in TipoAmbienteValues, padroes \in PadroesValues,
       enable \in {Unset, Set(<<"o", "f", "f">>)}, query \in Statements :
        Constructed([TIPO_AMBIENTE |-> tipo, NIVEIS_RISCO_PERMITIDOS |-> Unset,
                     PADROES_BLOQUEADOS |-> padroes, ENABLE_QUERY_CHECK |-> enable],
                    query)

\* The WHERE guard is asked about the statement that has just been
\* classified.
CheckQueryDepois ==
    /\ ret.op = "analisar_risco"
    /\ prev' = ret
    /\ ret' = Call("check_query", sql, Return(check_query(query_limiter, sql)))
    /\ UNCHANGED <<config, connection_manager, database, sql>>

NextWhere ==
    \/ AnalisarRisco
    \/ CheckQueryDepois

SpecWhere == InitWhere /\ [][NextWhere]_vars

\* C27: for a statement whose leading keyword is UPDATE or DELETE, the
\* enabled WHERE guard denies it if and only if the classifier reports
\* has_where false, which in development, when no blocked pattern matches,
\* is exactly when the classifier's level is above MEDIUM; a statement with
\* another leading keyword, or none, is allowed by the guard.
C27_WhereChecksAgree ==
    /\ ret.op = "check_query"
    /\ prev.op = "analisar_risco"
    /\ prev.out.raised = ""
    /\ query_limiter.enable_check
    => LET analysis == prev.out.value
           verdict == ret.out.value
       IN  IF NonBlank(ret.sql)
              /\ LeadingKeyword(ret.sql) \in {<<"U", "P", "D", "A", "T", "E">>, <<"D", "E", "L", "E", "T", "E">>}
           THEN /\ ~ verdict.allowed <=> ~ analysis.estimated_impact.has_where
                /\ sql_analyzer.env_type # "PRODUCAO"
                      /\ ~ MatchesBlocked(sql_analyzer, strip(ret.sql))
                   => (~ analysis.estimated_impact.has_where
                          <=> analysis.risk_level > MEDIO)
           ELSE verdict.allowed

\* In development an UPDATE without WHERE that matches no blocked pattern
\* was classified HIGH with has_where false and then denied by the guard.
C27_Witness ==
    /\ ret.op = "check_query"
    /\ prev.op = "analisar_risco"
    /\ prev.out.raised = ""
    /\ query_limiter.enable_check
    /\ sql_analyzer.env_type # "PRODUCAO"
    /\ NonBlank(ret.sql)
    /\ LeadingKeyword(ret.sql) = <<"U", "P", "D", "A", "T", "E">>
    /\ ~ prev.out.value.estimated_impact.has_where
    /\ prev.out.value.risk_level = ALTO
    /\ ~ ret.out.value.allowed

-----------------------------------------------------------------------------
(* C28 *)

PolicyStatements ==
    {<<" ">>, <<"S", "E", "L", "E", "C", "T", " ", "*", " ", "F", "R", "O", "M", " ", "u", "s", "e", "r", "s">>, <<"D", "R", "O", "P", " ", "T", "A", "B", "L", "E", " ", "u", "s", "e", "r", "s">>,
     <<"U", "P", "D", "A", "T", "E", " ", "u", "s", "e", "r", "s", " ", "S", "E", "T", " ", "a", "=", "1", " ", "W", "H", "E", "R", "E", " ", "i", "d", "=", "1">>, <<"U", "P", "D", "A", "T", "E", " ", "t", " ", "S", "E", "T", " ", "a", "=", "1">>, <<"I", "N", "S", "E", "R", "T", " ", "I", "N", "T", "O", " ", "t">>,
     <<"D", "E", "L", "E", "T", "E", " ", "F", "R", "O", "M", " ", "t">>, <<"C", "R", "E", "A", "T", "E", " ", "T", "A", "B", "L", "E", " ", "t">>, <<"s", "h", "o", "w", " ", "t", "a", "b", "l", "e", "s">>, <<"G", "R", "A", "N", "T", " ", "A", "L", "L">>}

\* Blocklists and their sub-lists, one with an entry that does not compile
PolicyPadroes ==
    {Unset, Set(<<"d", "r", "o", "p">>), Set(<<"u", "s", "e", "r", "s">>), Set(<<"d", "r", "o", "p", ",", "u", "s", "e", "r", "s">>), Set(<<"(", ",", "d", "r", "o", "p">>)}

InitPolicy ==
    \E tipo \in TipoAmbienteValues, niveis \in NiveisValues,
       padroes \in PolicyPadroes, query \in PolicyStatements :
        Constructed([TIPO_AMBIENTE |-> tipo, NIVEIS_RISCO_PERMITIDOS |-> niveis,
                     PADROES_BLOQUEADOS |-> padroes, ENABLE_QUERY_CHECK |-> Unset],
                    query)

\* The statement is classified and checked by the components loaded, and by
\* a classifier and an interceptor constructed in the same environment
\* under another allowed-levels override and another blocklist.
ClassificarSobPoliticas(niveis, padroes) ==
    LET env == [environ EXCEPT !.NIVEIS_RISCO_PERMITIDOS = niveis,
                               !.PADROES_BLOQUEADOS = padroes]
        other == SQLOperationType_init(env)
    IN  /\ ret' = [op |-> "policies", sql |-> sql,
                   first |-> [analyzer |-> sql_analyzer,
                              analysis |-> analisar_risco(sql_analyzer, sql),
                              check |-> check_operation(sql_interceptor, sql)],
                   second |-> [analyzer |-> other,
                               analysis |-> analisar_risco(other, sql),
                               check |-> check_operation(SQLInterceptor_init(other), sql)]]
        /\ prev' = NoCall
        /\ UNCHANGED <<config, connection_manager, database, sql>>

\* The override of the second policy: none, or every level
PolicyNiveis == {Unset, Set(<<"b", "a", "i", "x", "o", ",", " ", "m", "é", "d", "i", "o", ",", "a", "l", "t", "o", ",", "C", "R", "Í", "T", "I", "C", "O", ",", "u", "r", "g", "e", "n", "t", "e">>)}

NextPolicy ==
    \E niveis \in PolicyNiveis, padroes \in PolicyPadroes :
        ClassificarSobPoliticas(niveis, padroes)

SpecPolicy == InitPolicy /\ [][NextPolicy]_vars

\* s can be had from t by removing entries
RECURSIVE IsSubList(_, _)
IsSubList(s, t) ==
    IF s = <<>> THEN TRUE
    ELSE IF t = <<>> THEN FALSE
    ELSE IF Head(s) = Head(t) THEN IsSubList(Tail(s), Tail(t))
    ELSE IsSubList(s, Tail(t))

\* the outcome is an allow
Allowed(check) == check.raised = "" /\ check.value = TRUE

\* the classifier reports the statement as not dangerous and of an allowed
\* level, the two conditions the interceptor asks of an analysis
Cleared(analysis) ==
    /\ analysis.raised = ""
    /\ ~ analysis.value.is_dangerous
    /\ analysis.value.is_allowed

\* C28: for one environment and one statement, under a policy whose allowed
\* set contains the first policy's and whose blocklist is a sub-list of the
\* first policy's, a statement the interceptor allowed is still allowed, a
\* statement the classifier cleared is still cleared, and the computed risk
\* level is not higher.
C28_AdmissionMonotone ==
    /\ ret.op = "policies"
    /\ ret.first.analyzer.allowed_risk_levels \subseteq ret.second.analyzer.allowed_risk_levels
    /\ IsSubList(ret.second.analyzer.blocked_patterns, ret.first.analyzer.blocked_patterns)
    => /\ Allowed(ret.first.check) => Allowed(ret.second.check)
       /\ Cleared(ret.first.analysis) => Cleared(ret.second.analysis)
       /\ ret.first.analysis.raised = "" /\ ret.second.analysis.raised = ""
          => ret.second.analysis.value.risk_level <= ret.first.analysis.value.risk_level

\* A statement that matched a blocked pattern and was CRITICAL and refused
\* is, with the pattern removed and the allowed set enlarged, LOW and
\* cleared by the classifier.
C28_Witness ==
    /\ ret.op = "policies"
    /\ ret.first.analyzer.allowed_risk_levels \subseteq ret.second.analyzer.allowed_risk_levels
    /\ ret.first.analyzer.allowed_risk_levels # ret.second.analyzer.allowed_risk_levels
    /\ IsSubList(ret.second.analyzer.blocked_patterns, ret.first.analyzer.blocked_patterns)
    /\ Len(ret.second.analyzer.blocked_patterns) < Len(ret.first.analyzer.blocked_patterns)
    /\ ret.first.analysis.raised = "" /\ ret.second.analysis.raised = ""
    /\ ret.first.analysis.value.risk_level = CRITICO
    /\ ret.second.analysis.value.risk_level = BAIXO
    /\ Cleared(ret.second.analysis)

-----------------------------------------------------------------------------
(* C29 *)

\* the call met an error of the database: the server refused the statement
\* or could not be reached
DatabaseError(out) ==
    \/ \E i \in DOMAIN out.steps : out.steps[i] = "cursor.execute"
          /\ \A j \in DOMAIN out.steps : out.steps[j] # "cursor.fetchall"
    \/ /\ database.up = FALSE
       /\ \A i \in DOMAIN out.steps : out.steps[i] # "analyze_risk"

\* C29: in MySQLConnectionManager.execute_query an error of the database
\* reaches the caller as a ValueError, the transaction having been rolled
\* back if and only if the leading keyword is UPDATE, DELETE or INSERT; and
\* on every outcome, whenever a cursor exists, the cursor has been closed
\* and replaced by a fresh one when the call ends.
C29_ErrorHandling ==
    ret.op = "MySQLConnectionManager.execute_query"
    => /\ DatabaseError(ret.out) => ret.out.raised = "ValueError"
       /\ connection_manager.cursor # "None"
          => /\ \E i \in DOMAIN ret.out.steps : ret.out.steps[i] = "cursor.close"
             /\ connection_manager.cursor = "open"

-----------------------------------------------------------------------------
(* tools/mysql_schema_tool.py, tools/metadata_base_tool.py *)

\* s.startswith(prefix)
startswith(prefix, s) ==
    Len(prefix) <= Len(s) /\ SubSeq(s, 1, Len(prefix)) = prefix

\* str(n) for a natural number
RECURSIVE str_int(_)
str_int(n) ==
    LET digit(d) == <<"0", "1", "2", "3", "4", "5", "6", "7", "8", "9">>[d + 1]
    IN  IF n < 10 THEN <<digit(n)>> ELSE str_int(n \div 10) \o <<digit(n % 10)>>

\* An argument as the tool receives it: an int, or a value of another type
IntArg(n) == [int |-> TRUE, n |-> n]
OtherArg == [int |-> FALSE, n |-> 0]

\* An exception with its message
Raised(e, message) == [raised |-> e, value |-> FALSE, message |-> message]

\* MetadataToolBase.validate_parameter(...): the class defines
\* validar_parametro and no validate_parameter, so the attribute lookup
\* raises AttributeError whatever the arguments.
validate_parameter(name, value, valid, message) ==
    Raised("AttributeError",
           "type object 'MetadataToolBase' has no attribute 'validate_parameter'")

\* execute_query(connection, paginated_query) as the tool calls it: the
\* function takes (connection, cursor, query, params=None), so the call
\* raises TypeError before the function body runs.
tool_execute_query(connection, query) ==
    Raised("TypeError", "execute_query() missing 1 required positional argument: 'query'")

\* MetadataToolBase.formatar_resultados([{"error": ...}], tipo_de_operacao)
formatar_resultados(error, tipo_de_operacao) ==
    [tipo_de_operacao |-> tipo_de_operacao, contagem_de_resultados |-> 1,
     error |-> error]

\* The body of mysql_paginate_results; db.total is the number of rows the
\* query has
mysql_paginate_results_body(db, query, page, page_size) ==
    LET page_checked ==
            validate_parameter("page", page, page.int /\ page.n > 0,
                               "O número da página deve ser um inteiro positivo")
        page_size_checked ==
            validate_parameter("page_size", page_size,
                               page_size.int /\ 1 <= page_size.n /\ page_size.n <= 1000,
                               "O número de registros por página deve estar entre 1 e 1000")
        offset == (page.n - 1) * page_size.n
        paginated_query ==
            strip(query) \o <<" ", "L", "I", "M", "I", "T", " ">> \o str_int(page_size.n)
                \o <<" ", "O", "F", "F", "S", "E", "T", " ">> \o str_int(offset)
        count_query ==
            <<"S", "E", "L", "E", "C", "T", " ", "C", "O", "U", "N", "T", "(", "*", ")", " ", "a", "s", " ", "t", "o", "t", "a", "l", " ", "F", "R", "O", "M", " ", "(">> \o query \o <<")", " ", "a", "s", " ", "t", "e", "m", "p", "_", "c", "o", "u", "n", "t", "_", "t", "a", "b", "l", "e">>
        results == tool_execute_query("connection", paginated_query)
        count_results == tool_execute_query("connection", count_query)
        total_pages == (db.total + page_size.n - 1) \div page_size.n
    IN  IF page_checked.raised # "" THEN [out |-> page_checked, db |-> db]
        ELSE IF page_size_checked.raised # "" THEN [out |-> page_size_checked, db |-> db]
        ELSE IF ~ startswith(<<"S", "E", "L", "E", "C", "T">>, upper(strip(query)))
        THEN [out |-> Raised("ValueError", "Paginação suportada apenas para consultas SELECT"),
              db |-> db]
        ELSE IF contains(<<"L", "I", "M", "I", "T">>, upper(strip(query)))
        THEN [out |-> Raised("ValueError", "A consulta já contém cláusula LIMIT"),
              db |-> db]
        ELSE IF ~ db.up
        THEN [out |-> Raised("mysql.connector.Error", ""), db |-> db]
        ELSE IF results.raised # "" THEN [out |-> results, db |-> db]
        ELSE IF count_results.raised # ""
        THEN [out |-> count_results,
              db |-> [db EXCEPT !.submitted = @ \union {paginated_query}]]
        ELSE [out |-> [raised |-> "", message |-> "",
                       value |-> [operation_type |-> "Consulta paginada",
                                  page |-> page.n, page_size |-> page_size.n,
                                  total_records |-> db.total,
                                  total_pages |-> total_pages]],
              db |-> [db EXCEPT !.submitted = @ \union {paginated_query, count_query}]]

\* MetadataToolBase.handle_query_error: every exception of the tool becomes
\* an error result
handle_query_error(r) ==
    IF r.out.raised = "" THEN r
    ELSE [r EXCEPT !.out =
            [raised |-> "", message |-> "",
             value |->
                IF r.out.raised = "ParameterValidationError"
                THEN formatar_resultados(<<"Parameter validation error", r.out.message>>,
                                         "parameter validation")
                ELSE IF r.out.raised = "QueryExecutionError"
                THEN formatar_resultados(<<"Query execution error", r.out.message>>,
                                         "query execution")
                ELSE formatar_resultados(<<"Unknown error", r.out.message>>,
                                         "unknown error")]]

\* The tool mysql_paginate_results as registered
mysql_paginate_results(db, query, page, page_size) ==
    handle_query_error(mysql_paginate_results_body(db, query, page, page_size))

PaginateQueries ==
    {<<>>, <<"S", "E", "L", "E", "C", "T", " ", "*", " ", "F", "R", "O", "M", " ", "u", "s", "e", "r", "s">>, <<" ", "s", "e", "l", "e", "c", "t", " ", "1", " ">>, <<"S", "E", "L", "E", "C", "T", " ", "1", " ", "L", "I", "M", "I", "T", " ", "2">>,
     <<"D", "R", "O", "P", " ", "T", "A", "B", "L", "E", " ", "t">>, <<"S", "E", "L", "E", "C", "T", " ", "a", " ", "F", "R", "O", "M", " ", "l", "i", "m", "i", "t", "s">>}

PageValues == {OtherArg, IntArg(0), IntArg(1), IntArg(2)}
PageSizeValues == {OtherArg, IntArg(0), IntArg(1), IntArg(2), IntArg(1000), IntArg(1001)}
TotalValues == {0, 1, 3}

InitPaginate ==
    \E query \in PaginateQueries, total \in TotalValues :
        /\ environ = [TIPO_AMBIENTE |-> Unset, NIVEIS_RISCO_PERMITIDOS |-> Unset,
                      PADROES_BLOQUEADOS |-> Unset, ENABLE_QUERY_CHECK |-> Unset]
        /\ sql_analyzer = SQLOperationType_init(environ)
        /\ query_limiter = QueryLimiter_init(environ)
        /\ sql_interceptor = SQLInterceptor_init(SQLOperationType_init(environ))
        /\ connection_manager = MySQLConnectionManager_init
        /\ database = [up |-> TRUE, submitted |-> {}, total |-> total]
        /\ sql = query
        /\ ret = NoCall
        /\ prev = NoCall

\* A client calls the tool with the query, a page and a page size.
PaginateResults(page, page_size) ==
    LET r == mysql_paginate_results(database, sql, page, page_size)
    IN  /\ ret' = [op |-> "mysql_paginate_results", sql |-> sql,
                   page |-> page, page_size |-> page_size, out |-> r.out]
        /\ database' = r.db
        /\ prev' = NoCall
        /\ UNCHANGED <<config, connection_manager, sql>>

NextPaginate ==
    \E page \in PageValues, page_size \in PageSizeValues : PaginateResults(page, page_size)

SpecPaginate == InitPaginate /\ [][NextPaginate]_vars

-----------------------------------------------------------------------------
(* C30 *)

\* the least k with k * d >= n
Ceiling(n, d) == CHOOSE k \in 0..n : k * d >= n /\ (k = 0 \/ (k - 1) * d < n)

\* C30: mysql_paginate_results submits queries to the database only when
\* page is an integer of at least 1, page_size an integer from 1 to 1000,
\* and the trimmed query starts with SELECT in any case and does not
\* contain LIMIT; it then runs the query with LIMIT page_size OFFSET
\* (page - 1) * page_size and reports total_pages as the ceiling of
\* total_records / page_size; a call that violates a precondition yields an
\* error result and runs no query.
C30_Pagination ==
    ret.op = "mysql_paginate_results"
    => LET valid == /\ ret.page.int /\ ret.page.n >= 1
                    /\ ret.page_size.int /\ ret.page_size.n >= 1 /\ ret.page_size.n <= 1000
                    /\ startswith(<<"S", "E", "L", "E", "C", "T">>, upper(strip(ret.sql)))
                    /\ ~ contains(<<"L", "I", "M", "I", "T">>, upper(ret.sql))
           paginated == strip(ret.sql) \o <<" ", "L", "I", "M", "I", "T", " ">> \o str_int(ret.page_size.n)
                            \o <<" ", "O", "F", "F", "S", "E", "T", " ">>
                            \o str_int((ret.page.n - 1) * ret.page_size.n)
           failed == "error" \in DOMAIN ret.out.value
       IN  /\ database.submitted # {} => valid
           /\ valid => /\ paginated \in database.submitted
                       /\ ~ failed
                       /\ ret.out.value.total_pages
                              = Ceiling(ret.out.value.total_records, ret.page_size.n)
           /\ ~ valid => failed /\ database.submitted = {}

====
